---- MODULE Spec2Model ----
(***************************************************************************)
(* Salon dashboard: the appointment-to-sale completion workflow, the       *)
(* booking form and the service catalog, over one shared store.            *)
(*                                                                         *)
(* Two browser pages share the store: the appointments page                *)
(* (src/app/appointments/page.tsx, same handlers in src/unnamed/part_006)  *)
(* and the dashboard (src/app/dashboard/page.tsx).  The catalog page       *)
(* (src/app/services/page.tsx) writes the services collection.  The        *)
(* analytics page (src/app/analytics/page.tsx), the sales page             *)
(* (src/app/sales/page.tsx) and the first dashboard (src/unnamed/part_001) *)
(* read the store and derive their figures from the lists they hold.       *)
(*                                                                         *)
(* handleMarkAsDone is cut at its awaits, where another page can act on    *)
(* the store: a store call and the handler code up to the next store call  *)
(* form one step.  The other handlers run their write and the refetch that *)
(* follows it as one step.                                                 *)
(*                                                                         *)
(* Amounts are whole currency units; dates are the strings the code        *)
(* builds ("YYYY-MM-DD"); the clock is counted in hours of UTC.            *)
(***************************************************************************)
EXTENDS Integers, Sequences, FiniteSets, TLC

(***************************************************************************)
(* Bounds of the model.                                                    *)
(***************************************************************************)
MaxAppts == 1      \* appointment rows the booking form inserts
MaxServices == 3   \* service rows the catalog ever holds, the initial ones included
MaxInv == 2        \* invocations (clicks) of handleMarkAsDone
MaxFailures == 1   \* store calls that return an error
MaxSales == 3      \* sales rows the store holds when the report pages are opened
MaxLegacy == 5     \* appointment rows the store of the first dashboard holds

Null == "<null>"
NoId == 0

(***************************************************************************)
(* Calendar.  A day is counted from 2024-01-01 (day 0); an instant is      *)
(* counted in hours of UTC from 2024-01-01T00:00Z.                         *)
(***************************************************************************)
IsLeap(y) == (y % 4 = 0 /\ y % 100 # 0) \/ y % 400 = 0

DaysInYear(y) == IF IsLeap(y) THEN 366 ELSE 365

DaysInMonth(y, m) ==
    IF m = 2 THEN (IF IsLeap(y) THEN 29 ELSE 28)
    ELSE IF m \in {4, 6, 9, 11} THEN 30 ELSE 31

RECURSIVE YearOf(_, _)
\* <<year, day of the year (0-based)>> of day n counted from 1 January of year y
YearOf(y, n) == IF n < DaysInYear(y) THEN <<y, n>> ELSE YearOf(y + 1, n - DaysInYear(y))

RECURSIVE MonthOf(_, _, _)
\* <<month, day of the month (1-based)>> of 0-based day n counted from the 1st of month m
MonthOf(y, m, n) ==
    IF n < DaysInMonth(y, m) THEN <<m, n + 1>> ELSE MonthOf(y, m + 1, n - DaysInMonth(y, m))

Pad2(n) == IF n < 10 THEN "0" \o ToString(n) ELSE ToString(n)

\* 'YYYY-MM-DD' of a day number (years 1000..9999)
FormatDate(day) ==
    LET yd == YearOf(2024, day)
        md == MonthOf(yd[1], 1, yd[2])
    IN  ToString(yd[1]) \o "-" \o Pad2(md[1]) \o "-" \o Pad2(md[2])

\* floor division, also for negative instants
FloorDiv(a, b) == IF a >= 0 THEN a \div b ELSE -((-a + b - 1) \div b)

\* new Date().toISOString().split('T')[0]: the calendar date in UTC
ISODate(nowHours) == FormatDate(FloorDiv(nowHours, 24))

\* dayjs().format('YYYY-MM-DD'): the calendar date in the browser's time zone
LocalDate(nowHours, tzHours) == FormatDate(FloorDiv(nowHours + tzHours, 24))

\* The instants the clock passes through: 2024-03-01T09:00Z and 2024-03-01T23:00Z (at the
\* second the UTC date and the date at UTC+8 differ)
Instants == <<60 * 24 + 9, 60 * 24 + 23>>

\* UTC offsets (hours) of the browsers the pages run in
TimeZones == {8}

(***************************************************************************)
(* Input domains of the forms.                                             *)
(***************************************************************************)
CustomerNames == {"", "Ann"}
StaffNames == {""}        \* the form's staff field is left empty (BookedForms has staff)
FormDates == {"", FormatDate(60)}
FormTimes == {"", "10:00"}
StoreMessages == {"connection lost"}

\* What is typed into the fields of the booking form
FieldValues ==
    [customer_name |-> CustomerNames, staff |-> StaffNames, date |-> FormDates,
     time |-> FormTimes]

\* What the catalog form holds at a submit; texts are sequences of characters.  A priced
\* service, a negative price, a price and a duration that are no numbers, a zero duration
ServiceForms ==
    { [name |-> "Facial", price |-> <<"3", "5">>, duration_minutes |-> <<"2", "0">>],
      [name |-> "Haircut", price |-> <<"-", "5">>, duration_minutes |-> <<"2", "0", "m">>],
      [name |-> "Facial", price |-> <<"a", "b">>, duration_minutes |-> <<"2", "0">>],
      [name |-> "Facial", price |-> <<"3", "5">>, duration_minutes |-> <<>>],
      [name |-> "Facial", price |-> <<" ", "3", "5">>, duration_minutes |-> <<"0">>] }

\* The catalog the salon starts with
InitialServices ==
    { [id |-> 1, name |-> "Haircut", price |-> 30, duration_minutes |-> 30],
      [id |-> 2, name |-> "Manicure", price |-> 45, duration_minutes |-> 45] }

(***************************************************************************)
(* State.                                                                  *)
(***************************************************************************)
VARIABLES
    dbServices,        \* store: the services collection (set of rows)
    dbAppointments,    \* store: the appointments collection (set of rows)
    dbSales,           \* store: the sales collection (set of rows)
    nextId,            \* store: next identifier of each collection
    clock,             \* the system clock: the index of the current instant
    tz,                \* UTC offset of the browser, in hours
    apAppointments,    \* appointments page: useState appointments
    apServices,        \* appointments page: useState services
    apError,           \* appointments page: useState error
    formData,          \* appointments page: useState formData
    selectedServices,  \* appointments page: useState selectedServices
    editingId,         \* appointments page: useState editingId
    dashAppointments,  \* dashboard: useState appointments
    dashSales,         \* dashboard: useState sales
    dashError,         \* dashboard: useState error
    successMessage,    \* dashboard: useState successMessage
    showSuccessPopup,  \* dashboard: useState showSuccessPopup
    dashToday,         \* dashboard: dayjs() formatted at the last render
    timers,            \* dashboard: pending setTimeout callbacks, by kind
    svcServices,       \* catalog page: useState services
    svcError,          \* catalog page: useState error
    svcSuccessMessage, \* catalog page: useState successMessage
    inflight,          \* the invocations of handleMarkAsDone waiting for a store call
    started,           \* the number of clicks on Complete so far
    origin,            \* history: for each sale of a completion, the appointment it is for
    completed,         \* history: the appointments the delete step of a completion removed
    failed,            \* history: the write failures of completions, with the error shown
    failures,          \* store calls that returned an error so far
    anSales,           \* analytics page: useState sales
    periodSales,       \* analytics page: useState periodSales
    completedAppointments, \* analytics page: useState completedAppointments
    anError,           \* analytics page: useState error
    slSales,           \* sales page: useState sales
    slError,           \* sales page: useState error
    selectedDate,      \* sales page: useState selectedDate
    staffFilter,       \* sales page: useState staffFilter
    legacyAppointments, \* store: appointments in the one-service layout of the first dashboard
    ovAppointments,    \* first dashboard (src/unnamed/part_001): useState appointments
    ovSales,           \* first dashboard: useState sales
    ovError,           \* first dashboard: useState error
    apIsSubmitting,    \* appointments page: useState isSubmitting
    svcIsSubmitting,   \* catalog page: useState isSubmitting
    rpSales,           \* reports page: useState sales
    rpAppointments,    \* reports page: useState appointments
    rpLoading,         \* reports page: useState loading
    rpPending,         \* reports page: fetchReports is waiting for the store
    dashSelectedDate,  \* dashboard: useState selectedDate, a Date (hours since the epoch)
    selectedAppointments \* dashboard: useState selectedAppointments

storeVars == <<dbServices, dbAppointments, dbSales, nextId>>
formVars == <<formData, selectedServices, editingId>>
apVars == <<apAppointments, apServices, apError>>
calVars == <<dashSelectedDate, selectedAppointments>>
dashVars == <<dashAppointments, dashSales, dashError, successMessage, showSuccessPopup,
              dashToday, timers, calVars>>
svcVars == <<svcServices, svcError, svcSuccessMessage>>
invVars == <<inflight, started, origin, completed, failed>>
envVars == <<clock, tz>>
anVars == <<anSales, periodSales, completedAppointments, anError>>
slVars == <<slSales, slError, selectedDate, staffFilter>>
ovVars == <<legacyAppointments, ovAppointments, ovSales, ovError>>
rpVars == <<rpSales, rpAppointments, rpLoading, rpPending>>
pageVars == <<anVars, slVars, ovVars, rpVars>>
viewVars == <<pageVars, apIsSubmitting, svcIsSubmitting>>

\* new Date() / dayjs(): the current instant
Now == Instants[clock]
vars == <<dbServices, dbAppointments, dbSales, nextId, clock, tz, apAppointments, apServices,
          apError, formData, selectedServices, editingId, dashAppointments, dashSales,
          dashError, successMessage, showSuccessPopup, dashToday, timers, svcServices,
          svcError, svcSuccessMessage, inflight, started, origin, completed, failed, failures,
          anSales, periodSales, completedAppointments, anError, slSales, slError, selectedDate,
          staffFilter, legacyAppointments, ovAppointments, ovSales, ovError,
          apIsSubmitting, svcIsSubmitting, rpSales, rpAppointments, rpLoading, rpPending,
          dashSelectedDate, selectedAppointments>>

(***************************************************************************)
(* Helpers on sequences and rows.                                          *)
(***************************************************************************)
Range(seq) == {seq[i] : i \in 1..Len(seq)}

RECURSIVE SumOver(_, _)
\* Array.reduce with + over field f, left to right, from 0
SumOver(seq, f) ==
    IF seq = <<>> THEN 0 ELSE SumOver(SubSeq(seq, 1, Len(seq) - 1), f) + seq[Len(seq)][f]

RECURSIVE Join(_, _)
\* Array.join(sep)
Join(strs, sep) ==
    IF strs = <<>> THEN ""
    ELSE IF Len(strs) = 1 THEN strs[1]
    ELSE Join(SubSeq(strs, 1, Len(strs) - 1), sep) \o sep \o strs[Len(strs)]

\* services.map(s => s.name)
Names(services) == [i \in 1..Len(services) |-> services[i].name]

\* The day number of a 'YYYY-MM-DD' string of the model's calendar window
DayOfDate(str) == CHOOSE d \in 50..80 : FormatDate(d) = str

RECURSIVE OrderBy(_, _)
\* select ... order by: the rows of a set as a sequence, least key first (key: row -> number)
OrderBy(rows, key) ==
    IF rows = {} THEN <<>>
    ELSE LET first == CHOOSE r \in rows : \A q \in rows : key[r] <= key[q]
         IN  <<first>> \o OrderBy(rows \ {first}, key)

\* order('date'): by date, rows of one date by identifier
ByDate(rows) == [row \in rows |-> DayOfDate(row.date) * 1000 + row.id]

\* rows in the order of their identifiers
ById(rows) == [row \in rows |-> row.id]

\* A row of the store: the written columns and the identifier the store assigns
Row(id, columns) == [id |-> id] @@ columns

(***************************************************************************)
(* Booking form: the appointment row handleSubmit writes.                  *)
(***************************************************************************)
\* Totals that take the first selected service for all of them
calculateTotals_FirstOnly(services) ==
    [duration |-> IF services = <<>> THEN 0 ELSE services[1].duration_minutes,
     price |-> IF services = <<>> THEN 0 ELSE services[1].price]

\* services.reduce((acc, service) => ({duration: acc.duration + ..., price: acc.price + ...}))
calculateTotals(services) ==
    [duration |-> SumOver(services, "duration_minutes"), price |-> SumOver(services, "price")]

servicesData(selected) ==
    [i \in 1..Len(selected) |->
        [id |-> selected[i].id, name |-> selected[i].name, price |-> selected[i].price,
         duration_minutes |-> selected[i].duration_minutes]]

appointmentData(fd, selected) ==
    [customer_name |-> fd.customer_name,
     services |-> servicesData(selected),
     staff |-> IF fd.staff = "" THEN Null ELSE fd.staff,
     date |-> fd.date,
     time |-> fd.time,
     total_duration |-> calculateTotals(selected).duration,
     total_price |-> calculateTotals(selected).price]

EmptyForm == [customer_name |-> "", staff |-> "", date |-> "", time |-> ""]

(***************************************************************************)
(* Completion: the sale row handleMarkAsDone builds.                       *)
(***************************************************************************)
\* appointment.staff || null
StaffOrNull(staff) == IF staff = Null \/ staff = "" THEN Null ELSE staff

\* appointments page: date is new Date().toISOString().split('T')[0]
Appt_salesData(appointment, nowHours) ==
    [customer_name |-> appointment.customer_name,
     service |-> Join(Names(appointment.services), ", "),
     amount |-> appointment.total_price,
     date |-> ISODate(nowHours),
     staff |-> StaffOrNull(appointment.staff)]

\* dashboard: date is today.format('YYYY-MM-DD'), today = dayjs() at the click
Dash_salesData(appointment, nowHours, tzHours) ==
    [customer_name |-> appointment.customer_name,
     service |-> Join(Names(appointment.services), ", "),
     amount |-> appointment.total_price,
     date |-> LocalDate(nowHours, tzHours),
     staff |-> StaffOrNull(appointment.staff)]

(***************************************************************************)
(* The store.  Every call either takes effect and returns no error, or     *)
(* returns an error with a message and changes nothing.                    *)
(***************************************************************************)
StoreResults == {Null} \cup StoreMessages

\* The store calls of one step returned these results: count the errors among them
Returned(results) ==
    LET n == Cardinality({i \in 1..Len(results) : results[i] # Null})
    IN  /\ failures + n <= MaxFailures
        /\ failures' = failures + n

\* A store whose insert replaces the collection by the new row
InsertSale_Replacing(columns) ==
    /\ dbSales' = {Row(nextId.sales, columns)}
    /\ nextId' = [nextId EXCEPT !.sales = @ + 1]

\* from('sales').insert([row])
InsertSale(columns) ==
    /\ dbSales' = dbSales \cup {Row(nextId.sales, columns)}
    /\ nextId' = [nextId EXCEPT !.sales = @ + 1]

\* A store whose delete reports success and removes nothing
DeleteAppointment_Nothing(id) == dbAppointments' = dbAppointments

\* from('appointments').delete().eq('id', id): no row matching is no error
DeleteAppointment(id) == dbAppointments' = {r \in dbAppointments : r.id # id}

\* from('appointments').select(...).order('date', { ascending: true })
SelectAppointments(rows) == OrderBy(rows, ByDate(rows))

\* from('appointments').select('*').gte('date', startDate).lte('date', endDate).order(...)
SelectAppointmentsBetween(rows, startDate, endDate) ==
    LET hits == {r \in rows : /\ DayOfDate(r.date) >= DayOfDate(startDate)
                              /\ DayOfDate(r.date) <= DayOfDate(endDate)}
    IN  OrderBy(hits, ByDate(hits))

\* The names of the catalog in alphabetical order, and order('name') by it
NameOrder == <<"Facial", "Haircut", "Manicure">>

ByName(rows) ==
    [row \in rows |-> (CHOOSE i \in 1..Len(NameOrder) : NameOrder[i] = row.name) * 1000 + row.id]

\* from('services').select('*').order('name')
SelectServices(rows) == OrderBy(rows, ByName(rows))

\* from('sales').select('*').eq('date', date)
SelectSalesOn(rows, date) ==
    LET hits == {r \in rows : r.date = date} IN OrderBy(hits, ById(hits))

(***************************************************************************)
(* An invocation of handleMarkAsDone whose sale insert succeeded, waiting   *)
(* for the store call pc.  An invocation that threw or returned is over.   *)
(***************************************************************************)
Invocation(page, appointment, saleId, pc) ==
    [page |-> page, appointment |-> appointment, saleId |-> saleId, pc |-> pc]

\* A handler that does not look at the insert's error
ContinuesAfterInsert_Always(salesError) == TRUE

\* if (salesError) throw ...: the invocation goes on to the delete only without an error
ContinuesAfterInsert(salesError) == salesError = Null

\* if (deleteError) throw ...: the invocation goes on to the refresh only without an error
ContinuesAfterDelete(deleteError) == deleteError = Null

\* A handler that takes its sale back when the delete fails
SalesAfterDeleteError_Compensated(inv) == {s \in dbSales : s.id # inv.saleId}

\* The sales collection after a failed delete step: as it was (nothing is compensated)
SalesAfterDeleteError(inv) == dbSales

\* The history of a click: the invocation and, when its sale was inserted, the sale's
\* origin; when it was not, the failure and the error the page then shows
Started(page, appointment, nowHours, salesError, shown) ==
    /\ started < MaxInv
    /\ started' = started + 1
    /\ inflight' = IF ContinuesAfterInsert(salesError)
                   THEN inflight \cup {Invocation(page, appointment,
                                                  IF salesError = Null THEN nextId.sales
                                                  ELSE NoId, "delete")}
                   ELSE inflight
    /\ origin' = IF salesError = Null
                 THEN origin \cup {[sale |-> nextId.sales, appointment |-> appointment,
                                    page |-> page, now |-> nowHours, deleted |-> FALSE]}
                 ELSE origin
    /\ failed' = IF salesError = Null THEN failed
                 ELSE failed \cup {[page |-> page, step |-> "insert",
                                    appointment |-> appointment.id, error |-> shown]}
    /\ UNCHANGED completed

\* The history of a delete step
Deleted(inv, deleteError, shown) ==
    /\ inflight' = IF ContinuesAfterDelete(deleteError)
                   THEN (inflight \ {inv}) \cup {[inv EXCEPT !.pc = "refresh"]}
                   ELSE inflight \ {inv}
    /\ completed' = IF deleteError = Null /\ (\E r \in dbAppointments : r.id = inv.appointment.id)
                    THEN completed \cup {inv.appointment.id}
                    ELSE completed
    /\ origin' = IF deleteError = Null
                 THEN {IF o.sale = inv.saleId THEN [o EXCEPT !.deleted = TRUE] ELSE o :
                          o \in origin}
                 ELSE origin
    /\ failed' = IF deleteError = Null THEN failed
                 ELSE failed \cup {[page |-> inv.page, step |-> "delete",
                                    appointment |-> inv.appointment.id, error |-> shown]}
    /\ UNCHANGED started

\* throw new Error(`Failed to create sale: ${salesError.message}`), shown by the catch
Appt_createSaleError(message) == "Failed to create sale: " \o message

\* throw new Error(`Failed to delete appointment: ${deleteError.message}`), shown by the catch
Appt_deleteAppointmentError(message) == "Failed to delete appointment: " \o message

\* The dashboard's catch: one message for whatever was thrown
Dash_markAsDoneError(thrown) == "Failed to mark appointment as done. Please try again."

(***************************************************************************)
(* Appointments page.                                                      *)
(***************************************************************************)
\* fetchAppointments: the list is replaced on success, the error set on failure
Appt_fetchAppointments(rows, fetchError) ==
    IF fetchError = Null
    THEN /\ apAppointments' = SelectAppointments(rows)
         /\ UNCHANGED apError
    ELSE /\ apError' = fetchError
         /\ UNCHANGED apAppointments

\* fetchServices on the services the page holds: from('services').select('*')
\* .order('name'); a failure is only logged
Appt_fetchServices(held, rows, fetchError) ==
    IF fetchError = Null
    THEN apServices' = SelectServices(rows)
    ELSE apServices' = held

\* useEffect on mount (a load of the page): the page starts from its useState values, empty
\* lists and an empty form, and runs both fetches
Appt_load(errorA, errorS) ==
    /\ Returned(<<errorA, errorS>>)
    /\ apAppointments' = IF errorA = Null THEN SelectAppointments(dbAppointments) ELSE <<>>
    /\ apError' = errorA
    /\ Appt_fetchServices(<<>>, dbServices, errorS)
    /\ formData' = EmptyForm
    /\ selectedServices' = <<>>
    /\ editingId' = NoId
    /\ UNCHANGED <<storeVars, envVars, viewVars, svcVars, dashVars, invVars>>

\* handleMarkAsDone up to the result of the sale insert
Appt_handleMarkAsDone_Insert(appointment, salesError) ==
    /\ Returned(<<salesError>>)
    /\ appointment \in Range(apAppointments)
    /\ IF salesError = Null
       THEN InsertSale(Appt_salesData(appointment, Now))
       ELSE UNCHANGED <<dbSales, nextId>>
    /\ apError' = IF salesError = Null THEN Null ELSE Appt_createSaleError(salesError)
    /\ Started("appointments", appointment, Now, salesError, apError')
    /\ UNCHANGED <<dbServices, dbAppointments, envVars, viewVars, apAppointments,
                   apServices, formVars,
                   svcVars,
                   dashVars>>

\* handleMarkAsDone from the sale insert's success to the result of the delete
Appt_handleMarkAsDone_Delete(inv, deleteError) ==
    /\ Returned(<<deleteError>>)
    /\ inv \in inflight
    /\ inv.page = "appointments"
    /\ inv.pc = "delete"
    /\ IF deleteError = Null
       THEN DeleteAppointment(inv.appointment.id)
       ELSE UNCHANGED dbAppointments
    /\ dbSales' = IF deleteError = Null THEN dbSales ELSE SalesAfterDeleteError(inv)
    /\ apError' = IF deleteError = Null THEN apError
                  ELSE Appt_deleteAppointmentError(deleteError)
    /\ Deleted(inv, deleteError, apError')
    /\ UNCHANGED <<dbServices, nextId, envVars, viewVars, apAppointments, apServices, formVars,
                   svcVars, dashVars>>

\* handleMarkAsDone after both writes: await fetchAppointments()
Appt_handleMarkAsDone_Refresh(inv, fetchError) ==
    /\ Returned(<<fetchError>>)
    /\ inv \in inflight
    /\ inv.page = "appointments"
    /\ inv.pc = "refresh"
    /\ Appt_fetchAppointments(dbAppointments, fetchError)
    /\ inflight' = inflight \ {inv}
    /\ UNCHANGED <<storeVars, envVars, viewVars, apServices, formVars,
                   svcVars, dashVars, started, origin, completed,
                   failed>>

\* handleDelete: window.confirm, delete by id, then fetchAppointments
Appt_handleDelete(id, confirmed, deleteError, fetchError) ==
    /\ id \in {a.id : a \in Range(apAppointments)}
    /\ Returned(IF ~confirmed THEN <<>>
                ELSE IF deleteError # Null THEN <<deleteError>> ELSE <<fetchError>>)
    /\ IF ~confirmed
       THEN UNCHANGED <<dbAppointments, apAppointments, apError>>
       ELSE IF deleteError = Null
       THEN /\ DeleteAppointment(id)
            /\ IF fetchError = Null
               THEN /\ apAppointments' = SelectAppointments({r \in dbAppointments : r.id # id})
                    /\ apError' = Null
               ELSE /\ apError' = fetchError
                    /\ UNCHANGED apAppointments
       ELSE /\ apError' = "Failed to delete appointment"
            /\ UNCHANGED <<dbAppointments, apAppointments>>
    /\ UNCHANGED <<dbServices, dbSales, nextId, envVars, viewVars, apServices, formVars,
                   svcVars, dashVars, invVars>>

(***************************************************************************)
(* Appointments page: the booking form.                                    *)
(***************************************************************************)
\* handleChange: setError(null), the field takes the typed value
Appt_handleChange(name, value) ==
    /\ name \in DOMAIN formData
    /\ formData' = [formData EXCEPT ![name] = value]
    /\ apError' = Null
    /\ UNCHANGED <<storeVars, envVars, viewVars, apAppointments, apServices,
                   selectedServices, editingId,
                   dashVars, svcVars, invVars, failures>>

\* A toggle that appends the service whether or not it is selected
handleServiceToggle_Appending(prev, service) == Append(prev, service)

\* The updater of handleServiceToggle: a selected service (by id) is removed, another
\* appended
handleServiceToggle(prev, service) ==
    IF \E i \in 1..Len(prev) : prev[i].id = service.id
    THEN SelectSeq(prev, LAMBDA sel : sel.id # service.id)
    ELSE Append(prev, service)

\* handleServiceToggle: setSelectedServices(prev => ...)
Appt_handleServiceToggle(service) ==
    /\ service \in Range(apServices)
    /\ selectedServices' = handleServiceToggle(selectedServices, service)
    /\ UNCHANGED <<storeVars, envVars, viewVars, apVars, formData, editingId, dashVars, svcVars,
                   invVars, failures>>

\* handleEdit: the form takes the appointment's fields and its services snapshot
Appt_handleEdit(appointment) ==
    /\ appointment \in Range(apAppointments)
    /\ apError' = Null
    /\ formData' = [customer_name |-> appointment.customer_name,
                    staff |-> IF appointment.staff = Null THEN "" ELSE appointment.staff,
                    date |-> appointment.date,
                    time |-> appointment.time]
    /\ selectedServices' = appointment.services
    /\ editingId' = appointment.id
    /\ UNCHANGED <<storeVars, envVars, viewVars, apAppointments, apServices, dashVars, svcVars,
                   invVars, failures>>

\* A cancel that also deletes the appointment that was being edited
Appt_handleCancelEdit_Deleting ==
    /\ formData' = EmptyForm
    /\ selectedServices' = <<>>
    /\ editingId' = NoId
    /\ dbAppointments' = {r \in dbAppointments : r.id # editingId}
    /\ UNCHANGED <<dbServices, dbSales, nextId, envVars, viewVars, apVars, dashVars, svcVars,
                   invVars, failures>>

\* handleCancelEdit
Appt_handleCancelEdit ==
    /\ formData' = EmptyForm
    /\ selectedServices' = <<>>
    /\ editingId' = NoId
    /\ UNCHANGED <<storeVars, envVars, viewVars, apVars, dashVars, svcVars, invVars, failures>>

\* throw new Error('Customer name, services, date and time are required')
RequiredMessage == "Customer name, services, date and time are required"

\* .single() on an update that matched no row: the error the store's client returns
SingleRowMessage == "JSON object requested, multiple (or no) rows returned"

\* An update that writes its row whether or not a row has the identifier
UpdateError_Never(id) == Null

\* update(...).eq('id', id).select().single(): the error of single() when no row has the
\* identifier, the update having changed nothing
UpdateError(id) ==
    IF \E r \in dbAppointments : r.id = id THEN Null ELSE SingleRowMessage

\* setError(`Appointment operation failed: ${errorMessage}`)
Appt_operationFailed(message) == "Appointment operation failed: " \o message

\* A submit that resets the form and fetches the list also when it has failed
Appt_handleSubmit_AlwaysResetting(writeError, fetchError) ==
    LET valid == /\ formData.customer_name # ""
                 /\ formData.date # ""
                 /\ formData.time # ""
                 /\ Len(selectedServices) # 0
        row == appointmentData(formData, selectedServices)
        thrown == IF ~valid THEN RequiredMessage
                  ELSE IF writeError # Null THEN writeError
                  ELSE IF editingId # NoId THEN UpdateError(editingId)
                  ELSE Null
        written == IF editingId # NoId
                   THEN {r \in dbAppointments : r.id # editingId} \cup {Row(editingId, row)}
                   ELSE dbAppointments \cup {Row(nextId.appointments, row)}
    IN  /\ (valid /\ editingId = NoId) => nextId.appointments <= MaxAppts
        /\ Returned(IF ~valid THEN <<>>
                    ELSE IF thrown # Null THEN <<writeError>> ELSE <<fetchError>>)
        /\ IF thrown # Null
           THEN /\ apError' = Appt_operationFailed(thrown)
                /\ formData' = EmptyForm
                /\ selectedServices' = <<>>
                /\ editingId' = NoId
                /\ apAppointments' = SelectAppointments(dbAppointments)
                /\ UNCHANGED <<dbAppointments, nextId>>
           ELSE /\ dbAppointments' = written
                /\ nextId' = IF editingId = NoId
                             THEN [nextId EXCEPT !.appointments = @ + 1]
                             ELSE nextId
                /\ formData' = EmptyForm
                /\ selectedServices' = <<>>
                /\ editingId' = NoId
                /\ IF fetchError = Null
                   THEN /\ apAppointments' = SelectAppointments(written)
                        /\ apError' = Null
                   ELSE /\ apError' = fetchError
                        /\ UNCHANGED apAppointments
        /\ apIsSubmitting' = FALSE
        /\ UNCHANGED <<dbServices, dbSales, envVars, pageVars, svcIsSubmitting, apServices,
                       dashVars, svcVars, invVars>>

\* handleSubmit: validation, update of the edited row or insert of a new one, reset of the
\* form and fetchAppointments; whatever is thrown is shown and nothing else changes
Appt_handleSubmit(writeError, fetchError) ==
    LET valid == /\ formData.customer_name # ""
                 /\ formData.date # ""
                 /\ formData.time # ""
                 /\ Len(selectedServices) # 0
        row == appointmentData(formData, selectedServices)
        thrown == IF ~valid THEN RequiredMessage
                  ELSE IF writeError # Null THEN writeError
                  ELSE IF editingId # NoId THEN UpdateError(editingId)
                  ELSE Null
        written == IF editingId # NoId
                   THEN {r \in dbAppointments : r.id # editingId} \cup {Row(editingId, row)}
                   ELSE dbAppointments \cup {Row(nextId.appointments, row)}
    IN  /\ (valid /\ editingId = NoId) => nextId.appointments <= MaxAppts
        /\ Returned(IF ~valid THEN <<>>
                    ELSE IF thrown # Null THEN <<writeError>> ELSE <<fetchError>>)
        /\ IF thrown # Null
           THEN /\ apError' = Appt_operationFailed(thrown)
                /\ UNCHANGED <<dbAppointments, nextId, apAppointments, formVars>>
           ELSE /\ dbAppointments' = written
                /\ nextId' = IF editingId = NoId
                             THEN [nextId EXCEPT !.appointments = @ + 1]
                             ELSE nextId
                /\ formData' = EmptyForm
                /\ selectedServices' = <<>>
                /\ editingId' = NoId
                /\ IF fetchError = Null
                   THEN /\ apAppointments' = SelectAppointments(written)
                        /\ apError' = Null
                   ELSE /\ apError' = fetchError
                        /\ UNCHANGED apAppointments
        /\ apIsSubmitting' = FALSE
        /\ UNCHANGED <<dbServices, dbSales, envVars, pageVars, svcIsSubmitting, apServices,
                       dashVars, svcVars, invVars>>

(***************************************************************************)
(* Dashboard.                                                              *)
(***************************************************************************)
\* Array.filter
Filter(seq, keep) == SelectSeq(seq, LAMBDA x : keep[x])

\* A filter that reads the day of the Date in UTC
AppointmentsOn_UTC(appointments, date, tzHours) ==
    Filter(appointments, [a \in Range(appointments) |-> a.date = ISODate(date)])

\* appointments.filter(appointment => appointment.date === dayjs(date).format('YYYY-MM-DD'))
AppointmentsOn(appointments, date, tzHours) ==
    Filter(appointments, [a \in Range(appointments) |-> a.date = LocalDate(date, tzHours)])

\* getDayHasAppointment(date)
getDayHasAppointment(appointments, date, tzHours) ==
    \E i \in 1..Len(appointments) : appointments[i].date = LocalDate(date, tzHours)

\* getAppointmentCountForDay(date)
getAppointmentCountForDay(appointments, date, tzHours) ==
    Len(Filter(appointments,
               [a \in Range(appointments) |-> a.date = LocalDate(date, tzHours)]))

\* The Date the calendar hands to onChange for a day: the midnight of the day in the
\* browser's zone
CalendarDate(day, tzHours) == day * 24 - tzHours

\* fetchDashboardData: setError(null), the appointments of today..today+7, today's sales
Dash_fetchDashboardData(errorA, errorS) ==
    LET today == FloorDiv(Now + tz, 24)
    IN  /\ dashAppointments' =
              IF errorA # Null THEN <<>>
              ELSE SelectAppointmentsBetween(dbAppointments, FormatDate(today),
                                             FormatDate(today + 7))
        /\ selectedAppointments' = AppointmentsOn(dashAppointments', dashSelectedDate', tz)
        /\ dashSales' = IF errorS # Null THEN <<>>
                        ELSE SelectSalesOn(dbSales, FormatDate(today))
        /\ dashError' = IF errorS # Null THEN errorS ELSE errorA
        /\ dashToday' = FormatDate(today)

\* useEffect on mount (a load of the page): the page starts from its useState values,
\* without a message and without pending timeouts, and fetches
Dash_load(errorA, errorS) ==
    /\ Returned(<<errorA, errorS>>)
    /\ dashSelectedDate' = Now
    /\ Dash_fetchDashboardData(errorA, errorS)
    /\ successMessage' = Null
    /\ showSuccessPopup' = FALSE
    /\ timers' = [error |-> 0, popup |-> 0, message |-> 0]
    /\ UNCHANGED <<storeVars, envVars, viewVars, apVars, formVars, svcVars, invVars>>

\* handleMarkAsDone(appointment, dayjs()) up to the result of the sale insert; the
\* Complete button is rendered for the appointments dated today
Dash_handleMarkAsDone_Insert(appointment, salesError) ==
    /\ Returned(<<salesError>>)
    /\ appointment \in Range(dashAppointments)
    /\ appointment.date = dashToday
    /\ IF salesError = Null
       THEN InsertSale(Dash_salesData(appointment, Now, tz))
       ELSE UNCHANGED <<dbSales, nextId>>
    /\ dashError' = IF salesError = Null THEN dashError ELSE Dash_markAsDoneError(salesError)
    /\ Started("dashboard", appointment, Now, salesError, dashError')
    /\ timers' = IF salesError = Null THEN timers ELSE [timers EXCEPT !.error = @ + 1]
    /\ dashToday' = IF salesError = Null THEN dashToday ELSE LocalDate(Now, tz)
    /\ UNCHANGED <<dbServices, dbAppointments, envVars, viewVars, apVars, formVars,
                   svcVars, calVars, dashAppointments,
                   dashSales, successMessage, showSuccessPopup>>

\* handleMarkAsDone from the sale insert's success to the result of the delete
Dash_handleMarkAsDone_Delete(inv, deleteError) ==
    /\ Returned(<<deleteError>>)
    /\ inv \in inflight
    /\ inv.page = "dashboard"
    /\ inv.pc = "delete"
    /\ IF deleteError = Null
       THEN DeleteAppointment(inv.appointment.id)
       ELSE UNCHANGED dbAppointments
    /\ dbSales' = IF deleteError = Null THEN dbSales ELSE SalesAfterDeleteError(inv)
    /\ dashError' = IF deleteError = Null THEN dashError
                    ELSE Dash_markAsDoneError(deleteError)
    /\ Deleted(inv, deleteError, dashError')
    /\ timers' = IF deleteError = Null THEN timers ELSE [timers EXCEPT !.error = @ + 1]
    /\ dashToday' = IF deleteError = Null THEN dashToday ELSE LocalDate(Now, tz)
    /\ UNCHANGED <<dbServices, nextId, envVars, viewVars, apVars, formVars,
                   svcVars, calVars, dashAppointments, dashSales,
                   successMessage, showSuccessPopup>>

\* handleMarkAsDone after both writes: fetchDashboardData, then the success popup
Dash_handleMarkAsDone_Refresh(inv, errorA, errorS) ==
    /\ Returned(<<errorA, errorS>>)
    /\ inv \in inflight
    /\ inv.page = "dashboard"
    /\ inv.pc = "refresh"
    /\ UNCHANGED dashSelectedDate
    /\ Dash_fetchDashboardData(errorA, errorS)
    /\ successMessage' = "Appointment for " \o inv.appointment.customer_name
                                            \o " marked as completed!"
    /\ showSuccessPopup' = TRUE
    /\ timers' = [timers EXCEPT !.popup = @ + 1]
    /\ inflight' = inflight \ {inv}
    /\ UNCHANGED <<storeVars, envVars, viewVars, apVars, formVars,
                   svcVars, started, origin, completed, failed>>

\* onChange of the calendar: setSelectedDate(date), and the effect on selectedDate sets
\* selectedAppointments
Dash_setSelectedDate(day) ==
    /\ dashSelectedDate' = CalendarDate(day, tz)
    /\ selectedAppointments' = AppointmentsOn(dashAppointments, dashSelectedDate', tz)
    /\ dashToday' = LocalDate(Now, tz)
    /\ UNCHANGED <<storeVars, envVars, viewVars, apVars, formVars, svcVars, dashAppointments,
                   dashSales, dashError, successMessage, showSuccessPopup, timers, invVars,
                   failures>>

\* setTimeout(() => setError(null), 3000)
Dash_errorTimeout ==
    /\ timers.error > 0
    /\ dashError' = Null
    /\ timers' = [timers EXCEPT !.error = @ - 1]
    /\ dashToday' = LocalDate(Now, tz)
    /\ UNCHANGED <<storeVars, envVars, viewVars, apVars, formVars,
                   svcVars, calVars, dashAppointments, dashSales,
                   successMessage, showSuccessPopup, invVars, failures>>

\* setTimeout(() => { setShowSuccessPopup(false); setTimeout(..., 300) }, 3000)
Dash_popupTimeout ==
    /\ timers.popup > 0
    /\ showSuccessPopup' = FALSE
    /\ timers' = [timers EXCEPT !.popup = @ - 1, !.message = @ + 1]
    /\ dashToday' = LocalDate(Now, tz)
    /\ UNCHANGED <<storeVars, envVars, viewVars, apVars, formVars,
                   svcVars, calVars, dashAppointments, dashSales,
                   dashError, successMessage, invVars, failures>>

\* setTimeout(() => setSuccessMessage(null), 300)
Dash_messageTimeout ==
    /\ timers.message > 0
    /\ successMessage' = Null
    /\ timers' = [timers EXCEPT !.message = @ - 1]
    /\ dashToday' = LocalDate(Now, tz)
    /\ UNCHANGED <<storeVars, envVars, viewVars, apVars, formVars,
                   svcVars, calVars, dashAppointments, dashSales,
                   dashError, showSuccessPopup, invVars, failures>>

(***************************************************************************)
(* Catalog page.  The form and editingServiceId are taken as handleChange, *)
(* handleEdit and cancelEdit left them at the submit.                      *)
(***************************************************************************)
\* The result of parseInt / parseFloat: a number or NaN
Number(n) == [nan |-> FALSE, value |-> n]
NaN == [nan |-> TRUE, value |-> 0]

\* A test that takes NaN for a number
isNaN_Never(x) == FALSE

isNaN(x) == x.nan

\* x <= n on a parse result: a comparison with NaN is false
LessOrEqual(x, n) == ~x.nan /\ x.value <= n

Digits == <<"0", "1", "2", "3", "4", "5", "6", "7", "8", "9">>
IsDigit(c) == \E i \in 1..Len(Digits) : Digits[i] = c
DigitValue(c) == (CHOOSE i \in 1..Len(Digits) : Digits[i] = c) - 1

RECURSIVE SkipSpaces(_)
SkipSpaces(text) ==
    IF text # <<>> /\ Head(text) = " " THEN SkipSpaces(Tail(text)) ELSE text

RECURSIVE LeadingDigits(_)
LeadingDigits(text) ==
    IF text # <<>> /\ IsDigit(Head(text))
    THEN <<Head(text)>> \o LeadingDigits(Tail(text))
    ELSE <<>>

RECURSIVE DecimalValue(_)
DecimalValue(digits) ==
    IF digits = <<>> THEN 0
    ELSE DecimalValue(SubSeq(digits, 1, Len(digits) - 1)) * 10 + DigitValue(digits[Len(digits)])

\* A parse that reads a text without a digit as 0
parseInt_ZeroWithoutDigit(text) ==
    LET t == SkipSpaces(text)
        signed == t # <<>> /\ Head(t) \in {"-", "+"}
        digits == LeadingDigits(IF signed THEN Tail(t) ELSE t)
    IN  IF signed /\ Head(t) = "-" THEN Number(-DecimalValue(digits))
        ELSE Number(DecimalValue(digits))

\* parseInt(text): leading spaces skipped, a sign, the digits up to the first other
\* character; NaN without a digit
parseInt(text) ==
    LET t == SkipSpaces(text)
        signed == t # <<>> /\ Head(t) \in {"-", "+"}
        digits == LeadingDigits(IF signed THEN Tail(t) ELSE t)
    IN  IF digits = <<>> THEN NaN
        ELSE IF signed /\ Head(t) = "-" THEN Number(-DecimalValue(digits))
        ELSE Number(DecimalValue(digits))

\* parseFloat(text) on the typed prices: whole amounts, without '.', exponent or Infinity,
\* on which it reads what parseInt reads
parseFloat(text) == parseInt(text)

\* fetchServices of the catalog page
Svc_fetchServices(rows, fetchError) ==
    IF fetchError = Null
    THEN /\ svcServices' = SelectServices(rows)
         /\ svcError' = Null
    ELSE /\ svcError' = fetchError
         /\ UNCHANGED svcServices

\* A catalog whose update is carried into the snapshots of the stored appointments
AppointmentsAfterServiceUpdate_Cascading(id, serviceData) ==
    {[r EXCEPT !.services = [i \in 1..Len(r.services) |->
                                IF r.services[i].id = id
                                THEN Row(id, serviceData)
                                ELSE r.services[i]]] : r \in dbAppointments}

\* The appointments collection after from('services').update(serviceData).eq('id', id):
\* as it was (the update is of the services collection)
AppointmentsAfterServiceUpdate(id, serviceData) == dbAppointments

\* handleSubmit of the catalog form
Svc_handleSubmit(form, editingServiceId, writeError, fetchError) ==
    LET priceNumber == parseFloat(form.price)
        durationNumber == parseInt(form.duration_minutes)
        serviceData == [name |-> form.name, price |-> priceNumber.value,
                        duration_minutes |-> durationNumber.value]
        written == IF editingServiceId # NoId
                   THEN {IF r.id = editingServiceId THEN Row(r.id, serviceData) ELSE r :
                            r \in dbServices}
                   ELSE dbServices \cup {Row(nextId.services, serviceData)}
    IN  /\ editingServiceId \in {NoId} \cup {r.id : r \in Range(svcServices)}
        /\ IF isNaN(priceNumber)
           THEN /\ Returned(<<>>)
                /\ svcError' = "Please enter a valid price"
                /\ svcSuccessMessage' = Null
                /\ UNCHANGED <<dbServices, dbAppointments, nextId, svcServices>>
           ELSE IF isNaN(durationNumber) \/ LessOrEqual(durationNumber, 0)
           THEN /\ Returned(<<>>)
                /\ svcError' = "Please enter a valid duration"
                /\ svcSuccessMessage' = Null
                /\ UNCHANGED <<dbServices, dbAppointments, nextId, svcServices>>
           ELSE IF writeError # Null
           THEN /\ Returned(<<writeError>>)
                /\ svcError' = writeError
                /\ svcSuccessMessage' = Null
                /\ UNCHANGED <<dbServices, dbAppointments, nextId, svcServices>>
           ELSE /\ editingServiceId = NoId => nextId.services <= MaxServices
                /\ Returned(<<fetchError>>)
                /\ dbServices' = written
                /\ dbAppointments' = IF editingServiceId # NoId
                                     THEN AppointmentsAfterServiceUpdate(editingServiceId,
                                                                         serviceData)
                                     ELSE dbAppointments
                /\ nextId' = IF editingServiceId = NoId
                             THEN [nextId EXCEPT !.services = @ + 1]
                             ELSE nextId
                /\ svcSuccessMessage' = IF editingServiceId # NoId
                                        THEN "Service updated successfully"
                                        ELSE "Service created successfully"
                /\ Svc_fetchServices(written, fetchError)
        /\ svcIsSubmitting' = FALSE
        /\ UNCHANGED <<dbSales, envVars, pageVars, apIsSubmitting, apVars, formVars, dashVars,
                       invVars>>

\* handleDelete of the catalog page: confirm, delete by id, then fetchServices
Svc_handleDelete(serviceId, confirmed, deleteError, fetchError) ==
    /\ serviceId \in {r.id : r \in Range(svcServices)}
    /\ Returned(IF ~confirmed THEN <<>>
                ELSE IF deleteError # Null THEN <<deleteError>> ELSE <<fetchError>>)
    /\ IF ~confirmed
       THEN UNCHANGED <<dbServices, svcVars>>
       ELSE IF deleteError # Null
       THEN /\ svcError' = "Failed to delete service. It may be in use by appointments."
            /\ svcSuccessMessage' = Null
            /\ UNCHANGED <<dbServices, svcServices>>
       ELSE /\ dbServices' = {r \in dbServices : r.id # serviceId}
            /\ svcSuccessMessage' = "Service deleted successfully"
            /\ Svc_fetchServices({r \in dbServices : r.id # serviceId}, fetchError)
    /\ svcIsSubmitting' = IF confirmed THEN FALSE ELSE svcIsSubmitting
    /\ UNCHANGED <<dbAppointments, dbSales, nextId, envVars, pageVars, apIsSubmitting, apVars,
                   formVars, dashVars, invVars>>

(***************************************************************************)
(* Analytics page (src/app/analytics/page.tsx).  dayjs reads the           *)
(* 'YYYY-MM-DD' date of a sale as the midnight of that day in the          *)
(* browser's zone, and startOf(...) is a midnight of that zone: instants   *)
(* are compared by their local day numbers.                                *)
(***************************************************************************)
\* dayjs().day(): 0 is the Sunday; day 0 (2024-01-01) is a Monday
DayOfWeek(day) == (day + 1) % 7

\* dayjs().date(): the day of the month, from 1
DayOfMonth(day) ==
    LET yd == YearOf(2024, day) IN MonthOf(yd[1], 1, yd[2])[2]

\* today.startOf('day'): the local day of the instant
StartOfDay(nowHours, tzHours) == FloorDiv(nowHours + tzHours, 24)

\* today.startOf('week'): the Sunday on or before today (locale en)
StartOfWeek(nowHours, tzHours) ==
    StartOfDay(nowHours, tzHours) - DayOfWeek(StartOfDay(nowHours, tzHours))

\* today.startOf('month'): the first day of today's month
StartOfMonth(nowHours, tzHours) ==
    StartOfDay(nowHours, tzHours) - (DayOfMonth(StartOfDay(nowHours, tzHours)) - 1)

\* rows by date, the latest first, rows of one date by identifier
ByDateDescending(rows) == [row \in rows |-> row.id - DayOfDate(row.date) * 1000]

\* from('sales').select('*').order('date', { ascending: false })
SelectSales(rows) == OrderBy(rows, ByDateDescending(rows))

\* salesData.filter(sale => dayjs(sale.date).isSameOrAfter(start))
SalesOnOrAfter(sales, startDay) ==
    Filter(sales, [sale \in Range(sales) |-> DayOfDate(sale.date) >= startDay])

\* salesData.filter(sale => dayjs(sale.date).isSameOrAfter(start)).reduce(sum + sale.amount, 0)
SalesSince(sales, startDay) == SumOver(SalesOnOrAfter(sales, startDay), "amount")

\* The period totals fetchData computes: daily, weekly, monthly
PeriodSales(sales, nowHours, tzHours) ==
    [daily |-> SalesSince(sales, StartOfDay(nowHours, tzHours)),
     weekly |-> SalesSince(sales, StartOfWeek(nowHours, tzHours)),
     monthly |-> SalesSince(sales, StartOfMonth(nowHours, tzHours))]

\* salesData.filter(sale => dayjs(sale.date).isSame(dayjs(), 'day')).length
CompletedCount(sales, nowHours, tzHours) ==
    Len(Filter(sales, [sale \in Range(sales) |->
                          DayOfDate(sale.date) = StartOfDay(nowHours, tzHours)]))

\* A test that takes every sale as labelled
HasLabel_Always(sale) == TRUE

\* A sale without a label: if (sale.service) is false for '' and for null
HasLabel(sale) == sale.service # "" /\ sale.service # Null

RECURSIVE revenueByService(_)
\* sales.reduce((acc, sale) => { if (sale.service) acc[sale.service] = (acc[sale.service] || 0)
\* + sale.amount }, {}): the object as a function from its keys
revenueByService(sales) ==
    IF sales = <<>> THEN [label \in {} |-> 0]
    ELSE LET acc == revenueByService(SubSeq(sales, 1, Len(sales) - 1))
             sale == sales[Len(sales)]
         IN  IF HasLabel(sale)
             THEN [label \in DOMAIN acc \cup {sale.service} |->
                      IF label = sale.service
                      THEN (IF label \in DOMAIN acc THEN acc[label] ELSE 0) + sale.amount
                      ELSE acc[label]]
             ELSE acc

\* The days of the daily trend: Array.from({ length: 7 }, ...)
TrendDays == 7

MonthNames ==
    <<"Jan", "Feb", "Mar", "Apr", "May", "Jun", "Jul", "Aug", "Sep", "Oct", "Nov", "Dec">>

\* date.format('MMM DD')
FormatMonthDay(day) ==
    LET yd == YearOf(2024, day)
        md == MonthOf(yd[1], 1, yd[2])
    IN  MonthNames[md[1]] \o " " \o Pad2(md[2])

\* An array left in the order it was built in
Reverse_Kept(seq) == seq

\* Array.reverse
Reverse(seq) == [i \in 1..Len(seq) |-> seq[Len(seq) + 1 - i]]

\* last7Days: for i = 0..6 the day i days before today with the sum of the sales of that
\* day (isSame(date, 'day')), then reversed
last7Days(sales, nowHours, tzHours) ==
    Reverse([k \in 1..TrendDays |->
                LET day == StartOfDay(nowHours, tzHours) - (k - 1)
                IN  [date |-> FormatMonthDay(day),
                     amount |-> SumOver(Filter(sales, [sale \in Range(sales) |->
                                                          DayOfDate(sale.date) = day]),
                                        "amount")]])

\* A total that takes the amount of the last sale for the sum
totalRevenue_LastOnly(sales) == IF sales = <<>> THEN 0 ELSE sales[Len(sales)].amount

\* sales.reduce((sum, sale) => sum + sale.amount, 0)
totalRevenue(sales) == SumOver(sales, "amount")

\* dashboard: sales.reduce((sum, sale) => sum + sale.amount, 0)
todayRevenue(sales) == SumOver(sales, "amount")

\* const COLORS
COLORS ==
    << "#FF6B8A", "#4FACFE", "#43E97B", "#FA709A", "#FDBB2D",
       "#FF9A9E", "#A8EDEA", "#D299C2", "#FED6E3", "#D585FF" >>

RECURSIVE ServiceKeys(_)
\* The keys of revenueByService in the order they were added (the labels are no array
\* indices): Object.entries lists them in this order
ServiceKeys(sales) ==
    IF sales = <<>> THEN <<>>
    ELSE LET keys == ServiceKeys(SubSeq(sales, 1, Len(sales) - 1))
             sale == sales[Len(sales)]
         IN  IF HasLabel(sale) /\ ~ \E i \in 1..Len(keys) : keys[i] = sale.service
             THEN Append(keys, sale.service)
             ELSE keys

RECURSIVE SortByAmountDescending(_)
\* array.sort((a, b) => b.amount - a.amount): stable, rows of one amount keep their order
SortByAmountDescending(rows) ==
    IF rows = <<>> THEN <<>>
    ELSE LET sorted == SortByAmountDescending(SubSeq(rows, 1, Len(rows) - 1))
             row == rows[Len(rows)]
             k == Cardinality({i \in 1..Len(sorted) : sorted[i].amount >= row.amount})
         IN  SubSeq(sorted, 1, k) \o <<row>> \o SubSeq(sorted, k + 1, Len(sorted))

\* chartData: Object.entries(revenueByService).map(...).sort(...)
chartData(sales) ==
    LET revenue == revenueByService(sales)
        keys == ServiceKeys(sales)
        mapped == [i \in 1..Len(keys) |->
                      [service |-> keys[i], amount |-> revenue[keys[i]],
                       color |-> COLORS[((i - 1) % Len(COLORS)) + 1]]]
    IN  SortByAmountDescending(mapped)

\* A render whose sort is applied to the sales array itself
An_render_SortingSales(sales, nowHours, tzHours) ==
    [sales |-> SortByAmountDescending(sales),
     chartData |-> chartData(sales),
     last7Days |-> last7Days(sales, nowHours, tzHours),
     totalRevenue |-> totalRevenue(sales)]

\* What a render of the analytics page computes from the sales it holds, and the sales
\* array after it: sort() and reverse() reorder the array they are called on, which is the
\* array map() and Array.from() have just made, so the sales array stays as it is
An_render(sales, nowHours, tzHours) ==
    [sales |-> sales,
     chartData |-> chartData(sales),
     last7Days |-> last7Days(sales, nowHours, tzHours),
     totalRevenue |-> totalRevenue(sales)]

\* fetchData on what the page holds: setError(null), all sales, the period totals and
\* today's count; an error of the select is thrown before any of them is set
An_fetchData(held, salesError) ==
    IF salesError = Null
    THEN /\ anSales' = An_render(SelectSales(dbSales), Now, tz).sales
         /\ periodSales' = PeriodSales(SelectSales(dbSales), Now, tz)
         /\ completedAppointments' = CompletedCount(SelectSales(dbSales), Now, tz)
         /\ anError' = Null
    ELSE /\ anError' = "Sales fetch error: " \o salesError
         /\ anSales' = held.sales
         /\ periodSales' = held.periodSales
         /\ completedAppointments' = held.completedAppointments

\* The useState values the analytics page starts from
An_mounted ==
    [sales |-> <<>>, periodSales |-> [daily |-> 0, weekly |-> 0, monthly |-> 0],
     completedAppointments |-> 0]

\* useEffect on mount (a load of the page): the only call of fetchData
An_load(salesError) ==
    /\ Returned(<<salesError>>)
    /\ An_fetchData(An_mounted, salesError)
    /\ UNCHANGED <<storeVars, envVars, apVars, formVars, dashVars, svcVars, invVars,
                   slVars, ovVars, rpVars, apIsSubmitting, svcIsSubmitting>>

(***************************************************************************)
(* Export of the analytics page (src/app/analytics/exportSalesToExcel.ts): *)
(* the rows written to the sheet.                                          *)
(***************************************************************************)
\* An export that takes the sales after the start of the period only
exportSalesToExcel_After(sales, period, nowHours, tzHours) ==
    LET startOfWeek == StartOfWeek(nowHours, tzHours)
        startOfMonth == StartOfMonth(nowHours, tzHours)
    IN  IF period = "weekly"
        THEN Filter(sales, [sale \in Range(sales) |-> DayOfDate(sale.date) > startOfWeek])
        ELSE IF period = "monthly"
        THEN Filter(sales, [sale \in Range(sales) |-> DayOfDate(sale.date) > startOfMonth])
        ELSE <<>>

\* filteredSales of exportSalesToExcel(sales, period) called at the instant nowHours
exportSalesToExcel(sales, period, nowHours, tzHours) ==
    LET startOfWeek == StartOfWeek(nowHours, tzHours)
        startOfMonth == StartOfMonth(nowHours, tzHours)
    IN  IF period = "weekly"
        THEN Filter(sales, [sale \in Range(sales) |-> DayOfDate(sale.date) >= startOfWeek])
        ELSE IF period = "monthly"
        THEN Filter(sales, [sale \in Range(sales) |-> DayOfDate(sale.date) >= startOfMonth])
        ELSE <<>>

(***************************************************************************)
(* Sales page (src/app/sales/page.tsx).  The search box is left empty.     *)
(***************************************************************************)
\* rows by created_at, the latest first: identifiers grow with the time of the insert
ByCreationDescending(rows) == [row \in rows |-> 0 - row.id]

\* from('sales').select('*').eq('date', date).order('created_at', { ascending: false })
SelectSalesOnLatestFirst(rows, date) ==
    LET hits == {r \in rows : r.date = date} IN OrderBy(hits, ByCreationDescending(hits))

\* The effect on [sales, searchTerm, staffFilter], with searchTerm ''
filteredSales(sales, staff) ==
    IF staff = "all" THEN sales
    ELSE Filter(sales, [sale \in Range(sales) |-> sale.staff = staff])

\* filteredSales.reduce((sum, sale) => sum + sale.amount, 0)
totalSales(filtered) == SumOver(filtered, "amount")

\* fetchSales on the sales the page holds: setError(null), the sales of the selected date;
\* an error is thrown to the catch, which sets it
Sl_fetchSales(held, date, fetchError) ==
    IF fetchError = Null
    THEN /\ slSales' = SelectSalesOnLatestFirst(dbSales, date)
         /\ slError' = Null
    ELSE /\ slError' = fetchError
         /\ slSales' = held

\* useEffect on mount (a load of the page): no sales yet, selectedDate starts as today
Sl_load(fetchError) ==
    /\ Returned(<<fetchError>>)
    /\ selectedDate' = LocalDate(Now, tz)
    /\ staffFilter' = "all"
    /\ Sl_fetchSales(<<>>, LocalDate(Now, tz), fetchError)
    /\ UNCHANGED <<storeVars, envVars, apVars, formVars, dashVars, svcVars, invVars,
                   anVars, ovVars, rpVars, apIsSubmitting, svcIsSubmitting>>

\* The date picker: setSelectedDate, and the effect on [selectedDate] fetches
Sl_setSelectedDate(date, fetchError) ==
    /\ date # selectedDate
    /\ Returned(<<fetchError>>)
    /\ selectedDate' = date
    /\ Sl_fetchSales(slSales, date, fetchError)
    /\ UNCHANGED <<storeVars, envVars, apVars, formVars, dashVars, svcVars, invVars,
                   anVars, ovVars, rpVars, apIsSubmitting, svcIsSubmitting,
                   staffFilter>>

\* The staff filter: setStaffFilter
Sl_setStaffFilter(staff) ==
    /\ staff # staffFilter
    /\ staffFilter' = staff
    /\ UNCHANGED <<storeVars, envVars, apVars, formVars, dashVars, svcVars, invVars,
                   anVars, ovVars, rpVars, apIsSubmitting, svcIsSubmitting, slSales, slError,
                   selectedDate, failures>>

(***************************************************************************)
(* The first dashboard (src/unnamed/part_001): an appointment carries one  *)
(* service label.                                                          *)
(***************************************************************************)
\* The services shown as top services: slice(0, 3)
TopN == 3

\* from('appointments').select('*').eq('date', today).order('time'): rows of one time by
\* identifier
SelectLegacyAppointmentsOn(rows, date) ==
    LET hits == {r \in rows : r.date = date} IN OrderBy(hits, ById(hits))

\* fetchDashboardData of the first dashboard: both selects, then an error of either is
\* thrown to the catch before a list is set
Ov_fetchDashboardData(heldA, heldS, aError, sError) ==
    IF aError = Null /\ sError = Null
    THEN /\ ovAppointments' = SelectLegacyAppointmentsOn(legacyAppointments, LocalDate(Now, tz))
         /\ ovSales' = SelectSalesOn(dbSales, LocalDate(Now, tz))
         /\ ovError' = Null
    ELSE /\ ovError' = IF aError # Null THEN "Appointments error: " \o aError
                       ELSE "Sales error: " \o sError
         /\ ovAppointments' = heldA
         /\ ovSales' = heldS

\* useEffect on mount (a load of the page): the only call of fetchDashboardData
Ov_load(aError, sError) ==
    /\ Returned(<<aError, sError>>)
    /\ Ov_fetchDashboardData(<<>>, <<>>, aError, sError)
    /\ UNCHANGED <<storeVars, envVars, apVars, formVars, dashVars, svcVars, invVars,
                   anVars, slVars, rpVars, apIsSubmitting, svcIsSubmitting,
                   legacyAppointments>>

RECURSIVE serviceFrequency(_)
\* appointments.reduce((acc, appointment) => { acc[appointment.service] =
\* (acc[appointment.service] || 0) + 1 }, {}): the object as its entries <<name, count>>,
\* in the order the keys were added (the names are no array indices)
serviceFrequency(appointments) ==
    IF appointments = <<>> THEN <<>>
    ELSE LET acc == serviceFrequency(SubSeq(appointments, 1, Len(appointments) - 1))
             name == appointments[Len(appointments)].service
         IN  IF \E i \in 1..Len(acc) : acc[i][1] = name
             THEN [i \in 1..Len(acc) |->
                      IF acc[i][1] = name THEN <<name, acc[i][2] + 1>> ELSE acc[i]]
             ELSE Append(acc, <<name, 1>>)

\* Entries left in the order of the object
SortByCountDescending_Unsorted(entries) == entries

RECURSIVE SortByCountDescending(_)
\* entries.sort(([, a], [, b]) => b - a): stable, entries of one count keep their order
SortByCountDescending(entries) ==
    IF entries = <<>> THEN <<>>
    ELSE LET sorted == SortByCountDescending(SubSeq(entries, 1, Len(entries) - 1))
             entry == entries[Len(entries)]
             k == Cardinality({i \in 1..Len(sorted) : sorted[i][2] >= entry[2]})
         IN  SubSeq(sorted, 1, k) \o <<entry>> \o SubSeq(sorted, k + 1, Len(sorted))

\* Object.entries(serviceFrequency).sort(...).slice(0, 3)
topServices(appointments) ==
    LET sorted == SortByCountDescending(serviceFrequency(appointments))
    IN  SubSeq(sorted, 1, IF Len(sorted) < TopN THEN Len(sorted) ELSE TopN)

(***************************************************************************)
(* The busy flags of the two forms.  handleSubmit raises isSubmitting      *)
(* before its first store call and lowers it in its finally block; the     *)
(* steps below are the part of the handler before the store call, the      *)
(* handler's action is the rest of it.                                     *)
(***************************************************************************)
\* What a store call that rejects throws instead of returning a result
Rejections == {"Failed to fetch"}

\* The ways a store call can end: no error, an error result, or a rejection that the
\* handler's catch block receives as err.message
CallOutcomes == StoreResults \cup Rejections

\* handleSubmit of the appointments page up to its try block
Appt_handleSubmit_Start ==
    /\ ~apIsSubmitting
    /\ apError' = Null
    /\ apIsSubmitting' = TRUE
    /\ UNCHANGED <<storeVars, envVars, pageVars, svcIsSubmitting, apAppointments, apServices,
                   formVars, dashVars, svcVars, invVars, failures>>

\* handleSubmit of the catalog page up to its try block
Svc_handleSubmit_Start ==
    /\ ~svcIsSubmitting
    /\ svcIsSubmitting' = TRUE
    /\ svcError' = Null
    /\ svcSuccessMessage' = Null
    /\ UNCHANGED <<storeVars, envVars, pageVars, apIsSubmitting, apVars, formVars, dashVars,
                   svcServices, invVars, failures>>

(***************************************************************************)
(* Reports page (src/app/reports/page.tsx).                                *)
(***************************************************************************)
\* useState([]) twice, useState(true), and the mount effect has called fetchReports
Rp_mounted ==
    /\ rpSales = <<>>
    /\ rpAppointments = <<>>
    /\ rpLoading = TRUE
    /\ rpPending = TRUE

\* from('appointments').select('*').order('date', { ascending: false })
SelectAppointmentsLatestFirst(rows) == OrderBy(rows, ByDateDescending(rows))

\* fetchReports: two selects outside any try block, each list set unless its select
\* returned an error, then setLoading(false); a select that rejects ends the function
\* where it is
Rp_fetchReports(rejected, salesError, apptError) ==
    /\ rpPending
    /\ rpPending' = FALSE
    /\ Returned(IF rejected THEN <<"rejected">> ELSE <<salesError, apptError>>)
    /\ IF rejected
       THEN UNCHANGED <<rpSales, rpAppointments, rpLoading>>
       ELSE /\ rpSales' = IF salesError = Null THEN SelectSales(dbSales) ELSE rpSales
            /\ rpAppointments' = IF apptError = Null
                                 THEN SelectAppointmentsLatestFirst(dbAppointments)
                                 ELSE rpAppointments
            /\ rpLoading' = FALSE
    /\ UNCHANGED <<storeVars, envVars, anVars, slVars, ovVars, apIsSubmitting, svcIsSubmitting,
                   apVars, formVars, dashVars, svcVars, invVars>>

(***************************************************************************)
(* The clock.                                                              *)
(***************************************************************************)
Tick ==
    /\ clock < Len(Instants)
    /\ clock' = clock + 1
    /\ UNCHANGED <<storeVars, tz, viewVars, apVars, formVars, svcVars, dashVars, invVars, failures>>

(***************************************************************************)
(* Specification of the completion workflow: the store holds appointments  *)
(* the booking form has written, both pages are open and have loaded.      *)
(***************************************************************************)
\* The forms the booked appointments were submitted from, in order of their booking:
\* with and without staff, dated the first and the second day of the model's clock
BookedForms ==
    << [fd |-> [customer_name |-> "Ann", staff |-> "Sue", date |-> FormatDate(60),
                time |-> "10:00"],
        selected |-> <<CHOOSE r \in InitialServices : r.id = 1,
                       CHOOSE r \in InitialServices : r.id = 2>>],
       [fd |-> [customer_name |-> "Bob", staff |-> "", date |-> FormatDate(61),
                time |-> "10:00"],
        selected |-> <<CHOOSE r \in InitialServices : r.id = 2>>] >>

\* The instant the pages were loaded at
LoadedAt == Instants[1]

\* The pages after their mount effects, whatever the booking form holds
PagesLoaded ==
    /\ clock = 1
    /\ tz \in TimeZones
    /\ apAppointments = SelectAppointments(dbAppointments)
    /\ apServices = SelectServices(dbServices)
    /\ apError = Null
    /\ dashAppointments =
          SelectAppointmentsBetween(dbAppointments, LocalDate(LoadedAt, tz),
                                    LocalDate(LoadedAt + 7 * 24, tz))
    /\ dashSales = SelectSalesOn(dbSales, LocalDate(LoadedAt, tz))
    /\ dashError = Null
    /\ successMessage = Null
    /\ showSuccessPopup = FALSE
    /\ dashToday = LocalDate(LoadedAt, tz)
    /\ dashSelectedDate = LoadedAt
    /\ selectedAppointments = AppointmentsOn(dashAppointments, dashSelectedDate, tz)
    /\ timers = [error |-> 0, popup |-> 0, message |-> 0]
    /\ inflight = {}
    /\ started = 0
    /\ origin = {}
    /\ completed = {}
    /\ failed = {}
    /\ svcServices = SelectServices(dbServices)
    /\ svcError = Null
    /\ svcSuccessMessage = Null
    /\ anSales = SelectSales(dbSales)
    /\ periodSales = PeriodSales(SelectSales(dbSales), LoadedAt, tz)
    /\ completedAppointments = CompletedCount(SelectSales(dbSales), LoadedAt, tz)
    /\ anError = Null
    /\ selectedDate = LocalDate(LoadedAt, tz)
    /\ staffFilter = "all"
    /\ slSales = SelectSalesOnLatestFirst(dbSales, LocalDate(LoadedAt, tz))
    /\ slError = Null
    /\ ovAppointments = SelectLegacyAppointmentsOn(legacyAppointments, LocalDate(LoadedAt, tz))
    /\ ovSales = SelectSalesOn(dbSales, LocalDate(LoadedAt, tz))
    /\ ovError = Null
    /\ apIsSubmitting = FALSE
    /\ svcIsSubmitting = FALSE
    /\ Rp_mounted
    /\ failures = 0

\* The pages after their mount effects, the booking form untouched
PagesInit ==
    /\ formData = EmptyForm
    /\ selectedServices = <<>>
    /\ editingId = NoId
    /\ PagesLoaded

Init ==
    /\ dbServices = InitialServices
    /\ dbAppointments =
          {Row(id, appointmentData(BookedForms[id].fd, BookedForms[id].selected)) :
              id \in 1..Len(BookedForms)}
    /\ nextId = [services |-> Cardinality(InitialServices) + 1,
                 appointments |-> Len(BookedForms) + 1, sales |-> 1]
    /\ dbSales = {}
    /\ legacyAppointments = {}
    /\ PagesInit

Next ==
    \/ \E a \in Range(apAppointments), e \in StoreResults : Appt_handleMarkAsDone_Insert(a, e)
    \/ \E inv \in inflight, e \in StoreResults : Appt_handleMarkAsDone_Delete(inv, e)
    \/ \E inv \in inflight, e \in StoreResults : Appt_handleMarkAsDone_Refresh(inv, e)
    \/ \E a \in Range(dashAppointments), e \in StoreResults : Dash_handleMarkAsDone_Insert(a, e)
    \/ \E inv \in inflight, e \in StoreResults : Dash_handleMarkAsDone_Delete(inv, e)
    \/ \E inv \in inflight, errorA, errorS \in StoreResults :
          Dash_handleMarkAsDone_Refresh(inv, errorA, errorS)
    \/ \E a \in Range(apAppointments), c \in BOOLEAN, e, f \in StoreResults :
          Appt_handleDelete(a.id, c, e, f)
    \/ Tick

Spec == Init /\ [][Next]_vars

(***************************************************************************)
(* Properties of the completion workflow (under Spec).                     *)
(***************************************************************************)
\* The completion date of a page: the appointments page takes new Date() in UTC, the
\* dashboard the browser's dayjs()
CompletionDate(page, nowHours) ==
    IF page = "appointments" THEN ISODate(nowHours) ELSE LocalDate(nowHours, tz)

\* The sales rows of the completions of appointment id
SalesOf(id) == {s \in dbSales : \E o \in origin : o.sale = s.id /\ o.appointment.id = id}

\* The ids of the appointments the model starts with
BookedIds == 1..Len(BookedForms)

\* C1: a completion of appointment A at date D whose sale insert succeeded inserted exactly
\* one sales row, with customer_name = A.customer_name, service = the names of A.services
\* joined by ", ", amount = A.total_price, date = D and staff = A.staff or null; once its
\* delete succeeded too, no appointment row has A's id.
C1_SaleInsertedAppointmentRemoved ==
    /\ Cardinality(dbSales) = Cardinality(origin)
    /\ \A o \in origin :
          /\ \E s \in dbSales :
                /\ s.id = o.sale
                /\ DOMAIN s = {"id", "customer_name", "service", "amount", "date", "staff"}
                /\ s.customer_name = o.appointment.customer_name
                /\ s.service = Join(Names(o.appointment.services), ", ")
                /\ s.amount = o.appointment.total_price
                /\ s.date = CompletionDate(o.page, o.now)
                /\ s.staff = o.appointment.staff
                /\ \A q \in dbSales : q.id = o.sale => q = s
          /\ o.deleted => ~ \E r \in dbAppointments : r.id = o.appointment.id

\* C1 happens: both pages have completed an appointment, both writes successful, one of
\* the appointments without staff
C1_Witness ==
    \E o1, o2 \in origin :
        /\ o1.deleted /\ o2.deleted
        /\ o1.page = "appointments" /\ o2.page = "dashboard"
        /\ Null \in {o1.appointment.staff, o2.appointment.staff}
        /\ Len(o1.appointment.services) + Len(o2.appointment.services) >= 3

\* C2: when the sale insert returns an error, the invocation ends there: nothing is written
\* (no sales row, the appointments collection as it was), no delete will be issued by it,
\* and the page's error is set.
C2_InsertFailureAborts ==
    [][\A f \in failed' \ failed :
          f.step = "insert" =>
              /\ dbSales' = dbSales
              /\ dbAppointments' = dbAppointments
              /\ nextId' = nextId
              /\ inflight' = inflight
              /\ IF f.page = "appointments" THEN apError' # Null ELSE dashError' # Null]_vars

\* C2 happens: a sale insert has failed
C2_Witness ==
    \E f \in failed : f.step = "insert" /\ SalesOf(f.appointment) = {}

\* C3: an appointment never has more than one sales row from its completions, whatever
\* the clicks, sessions and retries.
C3_AtMostOneSalePerAppointment ==
    \A id \in BookedIds : Cardinality(SalesOf(id)) <= 1

\* C4: when the delete returns an error after the insert succeeded, the sale stays (it is
\* not taken back), the appointments collection stays as it was, the invocation ends (the
\* delete is not retried), the page's error is set and no success notification is shown.
C4_DeleteFailureLeavesBoth ==
    [][\A f \in failed' \ failed :
          f.step = "delete" =>
              \E inv \in inflight :
                  /\ inv.page = f.page
                  /\ inv.appointment.id = f.appointment
                  /\ inv.pc = "delete"
                  /\ inflight' = inflight \ {inv}
                  /\ dbSales' = dbSales
                  /\ \E s \in dbSales' : s.id = inv.saleId
                  /\ dbAppointments' = dbAppointments
                  /\ IF f.page = "appointments" THEN apError' # Null ELSE dashError' # Null
                  /\ successMessage' = successMessage
                  /\ showSuccessPopup' = showSuccessPopup]_vars

\* C4 happens: a delete has failed, and the store holds both the sale and the appointment
C4_Witness ==
    \E f \in failed :
        /\ f.step = "delete"
        /\ SalesOf(f.appointment) # {}
        /\ \E r \in dbAppointments : r.id = f.appointment

\* The errors a page shows when the sale insert fails
InsertFailureErrors(page) ==
    IF page = "appointments"
    THEN {Appt_createSaleError(m) : m \in StoreMessages}
    ELSE {Dash_markAsDoneError(m) : m \in StoreMessages}

\* C5: the error a page shows when the delete fails after the sale was inserted is not an
\* error it shows when the insert fails.
C5_DeleteFailureDistinct ==
    \A f \in failed : f.step = "delete" => f.error \notin InsertFailureErrors(f.page)

\* C6: every appointment a completion removed has a sales row of a completion of it.
C6_RemovedImpliesSale ==
    \A id \in completed : SalesOf(id) # {}

\* C6 happens: a completion has removed an appointment
C6_Witness ==
    \E id \in completed : ~ \E r \in dbAppointments : r.id = id

\* C9: no step removes or changes a sales row.
C9_SalesAppendOnly ==
    [][dbSales \subseteq dbSales']_vars

\* C9 happens: sales were inserted, and a delete failed after one of them
C9_Witness ==
    /\ Cardinality(dbSales) >= 2
    /\ \E f \in failed : f.step = "delete"

\* C10: the date of the sale of a completion is the calendar date of the browser's time
\* zone at the completion, on either page.
C10_SaleDateIsLocalDate ==
    \A o \in origin : \A s \in dbSales : s.id = o.sale => s.date = LocalDate(o.now, tz)

\* C11: when two invocations complete two different appointments, each completed by no
\* other invocation, and no write of theirs failed, then however their insert and delete
\* steps interleaved the store holds exactly one sale for each appointment, the sale its own
\* invocation built, and neither appointment.
C11_ConcurrentCompletionsIndependent ==
    \A o1, o2 \in origin :
        (/\ o1.appointment.id # o2.appointment.id
         /\ o1.deleted /\ o2.deleted
         /\ \A o \in origin :
               o.appointment.id \in {o1.appointment.id, o2.appointment.id} => o \in {o1, o2}
         /\ ~ \E f \in failed : f.appointment \in {o1.appointment.id, o2.appointment.id})
        => \A o \in {o1, o2} :
              /\ Cardinality(SalesOf(o.appointment.id)) = 1
              /\ \A s \in SalesOf(o.appointment.id) :
                    /\ s.id = o.sale
                    /\ s.customer_name = o.appointment.customer_name
                    /\ s.amount = o.appointment.total_price
                    /\ s.date = CompletionDate(o.page, o.now)
              /\ ~ \E r \in dbAppointments : r.id = o.appointment.id

\* C11 happens: the two pages have completed two different appointments, the delete of the
\* first invocation after the insert of the second, no store call having failed
C11_Witness ==
    \E o1, o2 \in origin :
        /\ o1.page # o2.page
        /\ o1.appointment.id # o2.appointment.id
        /\ o1.deleted /\ o2.deleted
        /\ o1.sale < o2.sale
        /\ \E inv \in inflight : inv.saleId = o1.sale /\ inv.pc = "refresh"
        /\ \E inv \in inflight : inv.saleId = o2.sale /\ inv.pc = "refresh"
        /\ failures = 0

(***************************************************************************)
(* Specification of the booking form: the appointments page, loaded on an  *)
(* empty appointments collection.                                          *)
(***************************************************************************)
InitBooking ==
    /\ dbServices = InitialServices
    /\ dbAppointments = {}
    /\ nextId = [services |-> Cardinality(InitialServices) + 1, appointments |-> 1,
                 sales |-> 1]
    /\ dbSales = {}
    /\ legacyAppointments = {}
    /\ PagesInit

NextBooking ==
    \/ \E name \in DOMAIN FieldValues : \E value \in FieldValues[name] :
          Appt_handleChange(name, value)
    \/ \E service \in Range(apServices) : Appt_handleServiceToggle(service)
    \/ \E a \in Range(apAppointments) : Appt_handleEdit(a)
    \/ Appt_handleCancelEdit
    \/ \E e, f \in StoreResults : Appt_handleSubmit(e, f)

SpecBooking == InitBooking /\ [][NextBooking]_vars

\* C7: every appointment row the form has written (created or edited) has total_duration
\* equal to the sum of its service entries' duration_minutes and total_price equal to the
\* sum of their price.
C7_TotalsAreSums ==
    \A r \in dbAppointments :
        /\ r.services # <<>>
        /\ r.total_duration = SumOver(r.services, "duration_minutes")
        /\ r.total_price = SumOver(r.services, "price")

\* C7 happens: a row created with one service was edited to two (the page still lists it
\* as it was created, its refetch having failed)
C7_Witness ==
    \E r \in dbAppointments : \E a \in Range(apAppointments) :
        /\ a.id = r.id
        /\ Len(a.services) = 1
        /\ Len(r.services) = 2
        /\ r.total_price = r.services[1].price + r.services[2].price
        /\ r.total_price # a.total_price

(***************************************************************************)
(* Specification of the catalog: the catalog page, loaded on the initial   *)
(* catalog, the store holding the booked appointments.                     *)
(***************************************************************************)
NextCatalog ==
    \/ \E form \in ServiceForms, id \in 0..MaxServices, e, f \in StoreResults :
          Svc_handleSubmit(form, id, e, f)
    \/ \E r \in Range(svcServices), c \in BOOLEAN, e, f \in StoreResults :
          Svc_handleDelete(r.id, c, e, f)

SpecCatalog == Init /\ [][NextCatalog]_vars

\* The row the booking of appointment id wrote
BookedRow(id) == Row(id, appointmentData(BookedForms[id].fd, BookedForms[id].selected))

\* C8: whatever the catalog page has updated or deleted, every stored appointment is the
\* row its booking wrote: the snapshot's names, prices and durations and the totals are
\* unchanged.
C8_CatalogLeavesAppointments ==
    \A r \in dbAppointments :
        /\ r.services = BookedRow(r.id).services
        /\ r.total_duration = BookedRow(r.id).total_duration
        /\ r.total_price = BookedRow(r.id).total_price

\* C8 happens: a stored appointment holds one service the catalog no longer has and one
\* whose catalog row has another price
C8_Witness ==
    \E r \in dbAppointments :
        /\ \E i \in 1..Len(r.services) : ~ \E c \in dbServices : c.id = r.services[i].id
        /\ \E i \in 1..Len(r.services) :
              \E c \in dbServices : c.id = r.services[i].id /\ c.price # r.services[i].price

(***************************************************************************)
(* Specification of the analytics page: the store holds the sales of       *)
(* earlier completions, the pages are open and have loaded; the analytics  *)
(* page is loaded again while the clock advances.                          *)
(***************************************************************************)
\* The sales of earlier completions: today's (2024-03-01, a Friday), of the Monday of this
\* week (2024-02-26, in the month before), of the week before (2024-02-23); with a label of
\* one and of two services, with an empty label and without a label
SaleColumns ==
    { [customer_name |-> "Ann", service |-> "Haircut", amount |-> 30,
       date |-> FormatDate(60), staff |-> "Sue"],
      [customer_name |-> "Bob", service |-> "Haircut", amount |-> 20,
       date |-> FormatDate(56), staff |-> Null],
      [customer_name |-> "Ann", service |-> "Manicure", amount |-> 45,
       date |-> FormatDate(60), staff |-> Null],
      [customer_name |-> "Bob", service |-> "", amount |-> 20,
       date |-> FormatDate(60), staff |-> Null],
      [customer_name |-> "Ann", service |-> "Haircut, Manicure", amount |-> 75,
       date |-> FormatDate(53), staff |-> "Sue"],
      [customer_name |-> "Bob", service |-> Null, amount |-> 30,
       date |-> FormatDate(56), staff |-> "Sue"] }

InitAnalytics ==
    /\ dbServices = InitialServices
    /\ dbAppointments = {}
    /\ \E n \in 0..MaxSales : \E columns \in [1..n -> SaleColumns] :
          /\ dbSales = {Row(id, columns[id]) : id \in 1..n}
          /\ nextId = [services |-> Cardinality(InitialServices) + 1, appointments |-> 1,
                       sales |-> n + 1]
    /\ legacyAppointments = {}
    /\ PagesInit

NextAnalytics ==
    \/ \E e \in StoreResults : An_load(e)
    \/ Tick

SpecAnalytics == InitAnalytics /\ [][NextAnalytics]_vars

\* C12: when no sale has a negative amount, the period totals the analytics fetch computed
\* satisfy daily <= weekly <= monthly, whatever the day of the reference instant.
C12_PeriodTotalsMonotonic ==
    (\A i \in 1..Len(anSales) : anSales[i].amount >= 0)
    => /\ periodSales.daily <= periodSales.weekly
       /\ periodSales.weekly <= periodSales.monthly

RECURSIVE AmountOf(_)
\* The sum of the amounts of a set of sales rows
AmountOf(rows) ==
    IF rows = {} THEN 0
    ELSE LET row == CHOOSE r \in rows : TRUE IN row.amount + AmountOf(rows \ {row})

RECURSIVE BucketSum(_, _)
\* The sum of the buckets of the given labels
BucketSum(buckets, labels) ==
    IF labels = {} THEN 0
    ELSE LET label == CHOOSE l \in labels : TRUE
         IN  buckets[label] + BucketSum(buckets, labels \ {label})

\* C14: revenueByService has one bucket for each distinct label that is neither empty nor
\* absent, holding the sum of the amounts of the sales with exactly that label; the buckets
\* together hold the total of the labelled sales.
C14_RevenueByServiceBuckets ==
    LET buckets == revenueByService(anSales)
        labelled == {sale \in Range(anSales) : sale.service \notin {"", Null}}
    IN  /\ DOMAIN buckets = {sale.service : sale \in labelled}
        /\ \A label \in DOMAIN buckets :
              buckets[label] = AmountOf({sale \in labelled : sale.service = label})
        /\ BucketSum(buckets, DOMAIN buckets) = AmountOf(labelled)

\* C14 happens: on the list of a reload on the day after, two Haircut sales of 30 and 20
\* make one bucket of 50 while a sale with an empty label is in the list
C14_Witness ==
    /\ clock = 2
    /\ anError = Null
    /\ completedAppointments = 0
    /\ \E i \in 1..Len(anSales) : anSales[i].service = ""
    /\ DOMAIN revenueByService(anSales) = {"Haircut"}
    /\ revenueByService(anSales)["Haircut"] = 50

\* C16: the daily trend has one entry for each of the 7 calendar days ending today, the
\* oldest first, each with the sum of the amounts of the sales dated that day; the series
\* sums to the total of the sales dated within those days.
C16_DailyTrendSeries ==
    LET trend == last7Days(anSales, Now, tz)
        today == FloorDiv(Now + tz, 24)
    IN  /\ Len(trend) = 7
        /\ \A k \in 1..7 :
              /\ trend[k].date = FormatMonthDay(today - 7 + k)
              /\ trend[k].amount =
                    AmountOf({sale \in Range(anSales) : sale.date = FormatDate(today - 7 + k)})
        /\ SumOver(trend, "amount") =
              AmountOf({sale \in Range(anSales) :
                           \E day \in (today - 6)..today : sale.date = FormatDate(day)})

\* C16 happens: on the day after a reload the series ends with "Mar 02" and holds the
\* sales of 2024-02-26 and of 2024-03-01, while a sale of 2024-02-23 is older than its days
C16_Witness ==
    /\ clock = 2
    /\ anError = Null
    /\ completedAppointments = 0
    /\ \E i \in 1..Len(anSales) : anSales[i].date = FormatDate(53)
    /\ LET trend == last7Days(anSales, Now, tz)
       IN  /\ trend[7] = [date |-> "Mar 02", amount |-> 0]
           /\ trend[6] = [date |-> "Mar 01", amount |-> 30]
           /\ trend[1] = [date |-> "Feb 25", amount |-> 0]
           /\ trend[2] = [date |-> "Feb 26", amount |-> 20]

(***************************************************************************)
(* Specification of the first dashboard: its store holds appointments of   *)
(* one service each, the page is open and has loaded, and is reloaded      *)
(* while the clock advances.                                               *)
(***************************************************************************)
LegacyLabels == {"Haircut", "Manicure", "Facial", "Massage"}

\* The booked appointments: of today (2024-03-01) with each label, and one of the day after
LegacyColumns ==
    { [time |-> "10:00", customer_name |-> "Ann", service |-> label, staff |-> "Sue",
       date |-> FormatDate(60)] : label \in LegacyLabels }
    \cup { [time |-> "10:00", customer_name |-> "Bob", service |-> "Haircut",
            staff |-> "Sue", date |-> FormatDate(61)] }

InitOverview ==
    /\ dbServices = InitialServices
    /\ dbAppointments = {}
    /\ dbSales = {}
    /\ nextId = [services |-> Cardinality(InitialServices) + 1, appointments |-> 1,
                 sales |-> 1]
    /\ \E n \in 0..MaxLegacy : \E columns \in [1..n -> LegacyColumns] :
          legacyAppointments = {Row(id, columns[id]) : id \in 1..n}
    /\ PagesInit

NextOverview ==
    \/ \E a, s \in StoreResults : Ov_load(a, s)
    \/ Tick

SpecOverview == InitOverview /\ [][NextOverview]_vars

\* How often a service is booked in a list, and where it is booked first
TimesBooked(appointments, name) ==
    Cardinality({i \in 1..Len(appointments) : appointments[i].service = name})

FirstBooked(appointments, name) ==
    CHOOSE i \in 1..Len(appointments) :
        /\ appointments[i].service = name
        /\ \A j \in 1..(i - 1) : appointments[j].service # name

InitForms ==
    /\ dbServices = InitialServices
    /\ dbAppointments = {}
    /\ nextId = [services |-> Cardinality(InitialServices) + 1, appointments |-> 1,
                 sales |-> 1]
    /\ dbSales = {}
    /\ legacyAppointments = {}
    /\ formData \in [customer_name : CustomerNames, staff : StaffNames, date : FormDates,
                     time : FormTimes]
    /\ \E n \in 0..Cardinality(InitialServices) :
          selectedServices = SubSeq(SelectServices(InitialServices), 1, n)
    /\ editingId = NoId
    /\ PagesLoaded

NextForms ==
    \/ \E e, f \in StoreResults : Appt_handleSubmit(e, f)
    \/ \E form \in ServiceForms, e, f \in StoreResults : Svc_handleSubmit(form, NoId, e, f)

SpecForms == InitForms /\ [][NextForms]_vars

\* A booking form that lacks the customer name, the date, the time or a service
BookingFormIncomplete ==
    \/ formData.customer_name = ""
    \/ formData.date = ""
    \/ formData.time = ""
    \/ selectedServices = <<>>

\* A text that has no digit after its leading spaces and one sign: it reads as no number
NotANumber(text) ==
    LET t == SkipSpaces(text)
    IN  LeadingDigits(IF t # <<>> /\ Head(t) \in {"-", "+"} THEN Tail(t) ELSE t) = <<>>

\* A text that reads as a number that is zero or negative
NotPositive(text) ==
    LET t == SkipSpaces(text)
        signed == t # <<>> /\ Head(t) \in {"-", "+"}
        digits == LeadingDigits(IF signed THEN Tail(t) ELSE t)
    IN  digits # <<>> /\ ((signed /\ Head(t) = "-") \/ \A i \in 1..Len(digits) : digits[i] = "0")

\* C17: a submit of the booking form without customer name, date, time or a service, and a
\* submit of the catalog form whose price is no number or whose duration is no number or
\* is <= 0, leave the store as it is and set the page's error message.
C17_InvalidSubmitWritesNothing ==
    [][/\ (BookingFormIncomplete /\ \E e, f \in StoreResults : Appt_handleSubmit(e, f))
          => (UNCHANGED storeVars /\ apError' # Null)
       /\ \A form \in ServiceForms :
             ((\/ NotANumber(form.price)
               \/ NotANumber(form.duration_minutes)
               \/ NotPositive(form.duration_minutes))
              /\ \E e, f \in StoreResults : Svc_handleSubmit(form, NoId, e, f))
             => (UNCHANGED storeVars /\ svcError' # Null)]_vars

\* C17 happens: both forms were submitted invalid (no date on the booking form, no
\* duration on the catalog form), both pages show the message and the store is as it was
C17_Witness ==
    /\ formData.customer_name = "Ann" /\ formData.date = "" /\ selectedServices # <<>>
    /\ apError = Appt_operationFailed(RequiredMessage)
    /\ svcError = "Please enter a valid duration"
    /\ dbServices = InitialServices
    /\ dbAppointments = {}
    /\ failures = 0

\* C18: every service row the catalog form has written has a price that is not negative.
C18_WrittenPriceNonNegative == \A r \in dbServices : r.price >= 0

PickedDates == {FormatDate(56), FormatDate(60)}

\* The staff filters of the sales page
StaffFilters == {"all", "Sue"}

InitFetch ==
    /\ dbServices = InitialServices
    /\ dbAppointments =
          {Row(id, appointmentData(BookedForms[id].fd, BookedForms[id].selected)) :
              id \in 1..Len(BookedForms)}
    /\ \E first, second \in SaleColumns :
          /\ first.date = FormatDate(56)
          /\ second.date = FormatDate(60)
          /\ dbSales = {Row(1, first), Row(2, second)}
    /\ nextId = [services |-> Cardinality(InitialServices) + 1,
                 appointments |-> Len(BookedForms) + 1, sales |-> 3]
    /\ legacyAppointments = {}
    /\ PagesInit

NextFetch ==
    \/ \E a \in Range(dashAppointments), e \in StoreResults : Dash_handleMarkAsDone_Insert(a, e)
    \/ \E inv \in inflight, e \in StoreResults : Dash_handleMarkAsDone_Delete(inv, e)
    \/ \E inv \in inflight, errorA, errorS \in StoreResults :
          Dash_handleMarkAsDone_Refresh(inv, errorA, errorS)
    \/ \E a \in Range(apAppointments), c \in BOOLEAN, e, f \in StoreResults :
          Appt_handleDelete(a.id, c, e, f)
    \/ \E date \in PickedDates, e \in StoreResults : Sl_setSelectedDate(date, e)
    \/ \E staff \in StaffFilters : Sl_setStaffFilter(staff)

SpecFetch == InitFetch /\ [][NextFetch]_vars

\* C20: a fetch that fails on a page that holds fetched data leaves the page's lists as
\* they were and sets the page's error: the dashboard's fetch after a completion, the
\* appointments page's fetch after a delete, the sales page's fetch after a change of date.
C20_FailedFetchKeepsLists ==
    [][/\ (/\ dashAppointments # <<>> \/ dashSales # <<>>
           /\ \E inv \in inflight, errorA, errorS \in StoreResults :
                 /\ errorA # Null \/ errorS # Null
                 /\ Dash_handleMarkAsDone_Refresh(inv, errorA, errorS))
          => (UNCHANGED <<dashAppointments, dashSales>> /\ dashError' # Null)
       /\ (/\ apAppointments # <<>>
           /\ \E a \in Range(apAppointments), f \in StoreMessages :
                 Appt_handleDelete(a.id, TRUE, Null, f))
          => (UNCHANGED apAppointments /\ apError' # Null)
       /\ (/\ slSales # <<>>
           /\ \E date \in PickedDates, f \in StoreMessages : Sl_setSelectedDate(date, f))
          => (UNCHANGED slSales /\ slError' # Null)]_vars

(***************************************************************************)
(* Specification of the busy flags: the two forms are submitted in two     *)
(* steps, the reports page has been opened.  A store call ends: the rest   *)
(* of a started handler is taken as soon as it stays possible.             *)
(***************************************************************************)
Appt_handleSubmit_Finish ==
    /\ apIsSubmitting
    /\ \E e, f \in CallOutcomes : Appt_handleSubmit(e, f)

Svc_handleSubmit_Finish ==
    /\ svcIsSubmitting
    /\ \E form \in ServiceForms, e, f \in CallOutcomes : Svc_handleSubmit(form, NoId, e, f)

Rp_fetchReports_Finish ==
    \E rejected \in BOOLEAN, e, f \in StoreResults : Rp_fetchReports(rejected, e, f)

NextBusy ==
    \/ Appt_handleSubmit_Start
    \/ Appt_handleSubmit_Finish
    \/ Svc_handleSubmit_Start
    \/ Svc_handleSubmit_Finish
    \/ Rp_fetchReports_Finish

SpecBusy ==
    /\ InitForms
    /\ [][NextBusy]_vars
    /\ WF_vars(Appt_handleSubmit_Finish)
    /\ WF_vars(Svc_handleSubmit_Finish)
    /\ WF_vars(Rp_fetchReports_Finish)

\* The two forms always get their flag back
FormFlagsReturn ==
    /\ apIsSubmitting ~> ~apIsSubmitting
    /\ svcIsSubmitting ~> ~svcIsSubmitting

\* C21: every busy flag a handler raised returns to false, however the handler ended:
\* isSubmitting of the booking form, isSubmitting of the catalog form, loading of the
\* reports page.
C21_BusyFlagsReturnToFalse ==
    /\ apIsSubmitting ~> ~apIsSubmitting
    /\ svcIsSubmitting ~> ~svcIsSubmitting
    /\ rpLoading ~> ~rpLoading

(***************************************************************************)
(* The list a page shows after a completion (under Spec).                  *)
(***************************************************************************)
\* The identifiers of the rows of a list
IdsOf(rows) == {r.id : r \in Range(rows)}

\* C22: a completion leaves the page's appointment list alone while it inserts the sale
\* and deletes the appointment (no optimistic removal); its refresh, when the select
\* succeeds, replaces the list by what the store holds then (for the dashboard: holds in
\* its window of eight days), and the completed appointment is not in it.
C22_RefreshReplacesList ==
    [][/\ \A e \in StoreResults :
             (\/ \E a \in Range(apAppointments) : Appt_handleMarkAsDone_Insert(a, e)
              \/ \E inv \in inflight : Appt_handleMarkAsDone_Delete(inv, e))
             => UNCHANGED apAppointments
       /\ \A e \in StoreResults :
             (\/ \E a \in Range(dashAppointments) : Dash_handleMarkAsDone_Insert(a, e)
              \/ \E inv \in inflight : Dash_handleMarkAsDone_Delete(inv, e))
             => UNCHANGED dashAppointments
       /\ \A inv \in inflight :
             Appt_handleMarkAsDone_Refresh(inv, Null)
             => /\ apAppointments' = SelectAppointments(dbAppointments')
                /\ inv.appointment.id \notin IdsOf(apAppointments')
       /\ \A inv \in inflight, errorS \in StoreResults :
             Dash_handleMarkAsDone_Refresh(inv, Null, errorS)
             => /\ dashAppointments' =
                      SelectAppointmentsBetween(dbAppointments', LocalDate(Now, tz),
                                                LocalDate(Now + 7 * 24, tz))
                /\ inv.appointment.id \notin IdsOf(dashAppointments')]_vars

\* C22 happens: a completion of each page has run to its end without a failed call, an
\* appointment is left in the store, and the lists show what the store holds
C22_Witness ==
    /\ inflight = {}
    /\ failures = 0
    /\ \E o1, o2 \in origin :
          /\ o1.page = "appointments" /\ o1.deleted
          /\ o2.page = "dashboard" /\ o2.deleted
          /\ o1.appointment.id \notin IdsOf(apAppointments)
          /\ o2.appointment.id \notin IdsOf(dashAppointments)
    /\ apAppointments = SelectAppointments(dbAppointments)

\* C23: at one instant and for one sales list, the rows exportSalesToExcel selects for
\* 'weekly' (for 'monthly') are the rows the analytics page sums into its weekly (monthly)
\* total: the same start of the period, the same on-or-after comparison.
C23_ExportSelectsPeriodSales ==
    /\ exportSalesToExcel(anSales, "weekly", Now, tz)
          = SalesOnOrAfter(anSales, StartOfWeek(Now, tz))
    /\ exportSalesToExcel(anSales, "monthly", Now, tz)
          = SalesOnOrAfter(anSales, StartOfMonth(Now, tz))
    /\ \A period \in {"weekly", "monthly"} :
          SumOver(exportSalesToExcel(anSales, period, Now, tz), "amount")
             = PeriodSales(anSales, Now, tz)[period]

\* C23 happens: the page has loaded, on the second day, a sale of the week before, one of
\* this week in the month before and one of the first day of this month; the weekly export
\* takes two of them, the monthly export one
C23_Witness ==
    /\ clock = 2
    /\ anError = Null
    /\ Len(anSales) = 3
    /\ Len(exportSalesToExcel(anSales, "weekly", Now, tz)) = 2
    /\ Len(exportSalesToExcel(anSales, "monthly", Now, tz)) = 1
    /\ periodSales.weekly = SumOver(exportSalesToExcel(anSales, "weekly", Now, tz), "amount")
    /\ DayOfDate(exportSalesToExcel(anSales, "monthly", Now, tz)[1].date)
          = StartOfMonth(Now, tz)

(***************************************************************************)
(* Specification of the views: the store holds some appointments and some  *)
(* sales, the dashboard and the analytics page are loaded and loaded       *)
(* again, and days are picked on the dashboard's calendar.                 *)
(***************************************************************************)
\* The booking forms the stored appointments were written from: two of today (2024-03-01),
\* one of the next day, one of a day after the dashboard's window
CalendarForms ==
    << [fd |-> [customer_name |-> "Ann", staff |-> "Sue", date |-> FormatDate(60),
                time |-> "10:00"],
        selected |-> <<CHOOSE r \in InitialServices : r.id = 1>>],
       [fd |-> [customer_name |-> "Bob", staff |-> "", date |-> FormatDate(61),
                time |-> "10:00"],
        selected |-> <<CHOOSE r \in InitialServices : r.id = 2>>],
       [fd |-> [customer_name |-> "Cat", staff |-> "", date |-> FormatDate(60),
                time |-> "09:00"],
        selected |-> <<CHOOSE r \in InitialServices : r.id = 2,
                       CHOOSE r \in InitialServices : r.id = 1>>],
       [fd |-> [customer_name |-> "Dan", staff |-> "Sue", date |-> FormatDate(70),
                time |-> "10:00"],
        selected |-> <<CHOOSE r \in InitialServices : r.id = 1>>] >>

\* The sales of earlier completions the views are computed from: two of today, the
\* smaller first, and one of the week before
ShownSales ==
    << [customer_name |-> "Ann", service |-> "Haircut", amount |-> 30,
        date |-> FormatDate(60), staff |-> "Sue"],
       [customer_name |-> "Ann", service |-> "Manicure", amount |-> 45,
        date |-> FormatDate(60), staff |-> Null],
       [customer_name |-> "Ann", service |-> "Haircut, Manicure", amount |-> 75,
        date |-> FormatDate(53), staff |-> "Sue"] >>

\* The days picked on the calendar
CalendarDays == {60, 61, 70}

InitCalendar ==
    /\ dbServices = InitialServices
    /\ \E ids \in SUBSET (1..Len(CalendarForms)) :
          dbAppointments =
             {Row(id, appointmentData(CalendarForms[id].fd, CalendarForms[id].selected)) :
                 id \in ids}
    /\ \E ids \in SUBSET (1..Len(ShownSales)) :
          dbSales = {Row(id, ShownSales[id]) : id \in ids}
    /\ nextId = [services |-> Cardinality(InitialServices) + 1,
                 appointments |-> Len(CalendarForms) + 1, sales |-> Len(ShownSales) + 1]
    /\ legacyAppointments = {}
    /\ PagesInit

NextCalendar ==
    \/ \E day \in CalendarDays : Dash_setSelectedDate(day)
    \/ \E errorA, errorS \in StoreResults : Dash_load(errorA, errorS)
    \/ \E e \in StoreResults : An_load(e)
    \/ Tick

SpecCalendar == InitCalendar /\ [][NextCalendar]_vars

\* The day of the calendar the selected Date lies in, in the browser's zone
SelectedDay == FloorDiv(dashSelectedDate + tz, 24)

\* The positions of the fetched appointments of a day, in fetched order
PositionsOn(day) == {i \in 1..Len(dashAppointments) : dashAppointments[i].date = FormatDate(day)}

\* C25: the dashboard's selected-day list is the sub-list, in fetched order, of the fetched
\* appointments whose date is the selected day, and the count the calendar shows for a day
\* is the number of fetched appointments of that day (for the selected day: the length of
\* the selected-day list).
C25_SelectedDayList ==
    /\ Len(selectedAppointments) = Cardinality(PositionsOn(SelectedDay))
    /\ \A k \in 1..Len(selectedAppointments) :
          \E i \in PositionsOn(SelectedDay) :
              /\ selectedAppointments[k] = dashAppointments[i]
              /\ Cardinality({j \in PositionsOn(SelectedDay) : j < i}) = k - 1
    /\ \A day \in CalendarDays \cup {SelectedDay} :
          /\ getAppointmentCountForDay(dashAppointments, CalendarDate(day, tz), tz)
                = Cardinality(PositionsOn(day))
          /\ getDayHasAppointment(dashAppointments, CalendarDate(day, tz), tz)
                <=> PositionsOn(day) # {}
    /\ getAppointmentCountForDay(dashAppointments, dashSelectedDate, tz)
          = Len(selectedAppointments)

\* C25 happens: the dashboard holds three appointments, today has been picked on the
\* calendar and the selected-day list holds today's two, the earlier of the two first
C25_Witness ==
    /\ Len(dashAppointments) = 3
    /\ dashSelectedDate = CalendarDate(60, tz)
    /\ Len(selectedAppointments) = 2
    /\ selectedAppointments[1].customer_name = "Ann"
    /\ selectedAppointments[2].customer_name = "Cat"
    /\ dashAppointments[3].customer_name = "Bob"

InitSessions ==
    /\ dbServices = InitialServices
    /\ dbAppointments = {}
    /\ nextId = [services |-> Cardinality(InitialServices) + 1, appointments |-> 1,
                 sales |-> 1]
    /\ dbSales = {}
    /\ legacyAppointments = {}
    /\ formData = [customer_name |-> "Ann", staff |-> "", date |-> FormatDate(60),
                   time |-> "10:00"]
    /\ \E n \in 0..Cardinality(InitialServices) :
          selectedServices = SubSeq(SelectServices(InitialServices), 1, n)
    /\ editingId = NoId
    /\ PagesLoaded

NextSessions ==
    \/ Appt_handleSubmit(Null, Null)
    \/ \E a \in Range(apAppointments) : Appt_handleEdit(a)
    \/ \E service \in Range(apServices) : Appt_handleServiceToggle(service)
    \/ Appt_handleCancelEdit
    \/ \E a \in Range(apAppointments), c \in BOOLEAN : Appt_handleDelete(a.id, c, Null, Null)
    \/ Dash_load(Null, Null)
    \/ \E a \in Range(dashAppointments) : Dash_handleMarkAsDone_Insert(a, Null)
    \/ \E inv \in inflight : Dash_handleMarkAsDone_Delete(inv, Null)
    \/ \E inv \in inflight : Dash_handleMarkAsDone_Refresh(inv, Null, Null)

SpecSessions == InitSessions /\ [][NextSessions]_vars

\* The identifiers of the stored appointments
StoredIds == {r.id : r \in dbAppointments}

BookingFormComplete ==
    /\ formData.customer_name # ""
    /\ formData.date # ""
    /\ formData.time # ""
    /\ selectedServices # <<>>

\* C27: an appointment that was removed from the store is not created again: a step adds
\* no identifier but the next new one; a submit of the form in edit mode leaves the
\* identifiers and the number of the stored appointments as they were, and when the edited
\* appointment is no longer stored it writes nothing and sets the error.
C27_StaleEditWritesNothing ==
    [][/\ StoredIds' \ StoredIds \subseteq {nextId.appointments}
       /\ nextId'.appointments >= nextId.appointments
       /\ (editingId # NoId /\ Appt_handleSubmit(Null, Null))
          => /\ StoredIds' = StoredIds
             /\ Cardinality(dbAppointments') = Cardinality(dbAppointments)
             /\ (editingId \notin StoredIds /\ BookingFormComplete)
                => /\ dbAppointments' = dbAppointments
                   /\ apError' = Appt_operationFailed(SingleRowMessage)
                   /\ editingId' = editingId]_vars

\* C27 happens: the form holds the edit of an appointment the dashboard has completed in
\* the meantime, and its submit has ended in the error
C27_Witness ==
    /\ editingId # NoId
    /\ editingId \in completed
    /\ editingId \notin StoredIds
    /\ BookingFormComplete
    /\ apError = Appt_operationFailed(SingleRowMessage)

\* C28: the sale of a completion carries the total_price and the service names the
\* appointment has in the store when the completion deletes it, also when another session
\* has edited the appointment since the completing page fetched it.
C28_SaleMatchesStoredAppointment ==
    [][\A inv \in inflight :
          Dash_handleMarkAsDone_Delete(inv, Null)
          => \A r \in dbAppointments : \A s \in dbSales :
                (r.id = inv.appointment.id /\ s.id = inv.saleId)
                => /\ s.amount = r.total_price
                   /\ s.service = Join(Names(r.services), ", ")]_vars

(***************************************************************************)
(* Properties of the selection of the booking form (under SpecBooking).    *)
(***************************************************************************)
\* The service ids of a selection
SelectedIds(selected) == {selected[i].id : i \in 1..Len(selected)}

\* C29: the selection of the booking form never holds two entries of one service id, and
\* toggling a service twice gives a selection of the same ids (with the same property).
C29_SelectionHasNoDuplicates ==
    /\ Cardinality(SelectedIds(selectedServices)) = Len(selectedServices)
    /\ \A service \in Range(apServices) :
          LET once == handleServiceToggle(selectedServices, service)
              twice == handleServiceToggle(once, service)
          IN  /\ SelectedIds(twice) = SelectedIds(selectedServices)
              /\ Len(twice) = Len(selectedServices)
              /\ SelectedIds(once) # SelectedIds(selectedServices)
              /\ Cardinality(SelectedIds(once)) = Len(once)

\* C29 happens: an appointment booked with two services is being edited, and its first
\* service was toggled off and on again: the selection holds the same two ids, in the
\* other order
C29_Witness ==
    /\ editingId # NoId
    /\ \E a \in Range(apAppointments) :
          /\ a.id = editingId
          /\ Len(a.services) = 2
          /\ Len(selectedServices) = 2
          /\ selectedServices[1].id = a.services[2].id
          /\ selectedServices[2].id = a.services[1].id

\* Why a submit of the booking form fails with this result of its write: the form is
\* incomplete, the write returned an error, or the edited appointment is no longer stored
SubmitFails(writeError) ==
    \/ ~BookingFormComplete
    \/ writeError # Null
    \/ editingId # NoId /\ editingId \notin StoredIds

\* C30: a submit of the booking form that fails leaves the form (fields, selection,
\* editingId) and the page's list as they were, writes nothing and sets the error; a
\* submit that succeeds empties the form and, its fetch succeeding, replaces the list by
\* what the store holds.
C30_FailedSubmitKeepsForm ==
    [][\A e, f \in StoreResults :
          Appt_handleSubmit(e, f)
          => IF SubmitFails(e)
             THEN /\ UNCHANGED <<formData, selectedServices, editingId>>
                  /\ UNCHANGED <<apAppointments, dbAppointments>>
                  /\ apError' # Null
             ELSE /\ formData' = EmptyForm
                  /\ selectedServices' = <<>>
                  /\ editingId' = NoId
                  /\ f = Null => apAppointments' = OrderBy(dbAppointments',
                                                           ByDate(dbAppointments'))]_vars

\* C30 happens: an appointment was booked but the fetch after it failed, so the page lists
\* nothing; then an incomplete form was submitted: the form still holds what was typed and
\* the page still lists nothing
C30_Witness ==
    /\ dbAppointments # {}
    /\ apAppointments = <<>>
    /\ apError = Appt_operationFailed(RequiredMessage)
    /\ formData.customer_name # ""
    /\ selectedServices # <<>>
    /\ ~BookingFormComplete

====
